---- MODULE Spec2Model ----
(***************************************************************************)
(* A model of the macPlus GUI host (homebrew-macplus): the executor        *)
(* routing mirror, the version comparison, the startup effect, the update  *)
(* progress store and its event listener, the settings query/mutation and  *)
(* the update counts / "Update All" of the app views.                      *)
(*                                                                         *)
(* The module holds several specifications over one set of variables; each *)
(* specification moves only its own group of variables and pins the others *)
(* to their initial values.                                                *)
(***************************************************************************)
EXTENDS Integers, Sequences, FiniteSets, TLC

VARIABLES
    \* ---- routing (isDelegatedUpdate against the executor routing) ----
    rApp,          \* the AppSummary row under consideration
    rShown,        \* what isDelegatedUpdate(app) returned at the last render, or None
    rExec,         \* "idle" | "running" | "done": the backend execution of rApp
    rExecutor,     \* the executor the backend routed the execution to, or NULL
    rComplete,     \* the update-execute-complete payload of the execution, or None
    \* ---- version comparison ----
    vCurrent,      \* first argument of isVersionNewer
    vAvailable,    \* second argument of isVersionNewer
    vNewer,        \* result of isVersionNewer(vCurrent, vAvailable), or None
    vThird,        \* a third version, compared with the other two
    vOrder,        \* the comparisons among the three versions, or None
    \* ---- startup of the desktop window ----
    stCatalog,     \* engine: bundle ids of the app catalog
    stAutoCheck,   \* engine: the persisted auto_check_on_launch setting
    stLaunch,      \* the catalog and the setting as they were at launch
    stSettings,    \* useSettings().data: None while loading, or Some(settings)
    stApps,        \* useApps().data: None while loading, or Some(set of bundle ids)
    stSettingsFetch, \* "fetching" | "idle": get_settings in flight
    stAppsFetch,   \* "fetching" | "idle": get_all_apps in flight
    hasRunStartup, \* DesktopApp's hasRunStartup ref
    fullScan,      \* the useFullScan mutation: "idle" | "pending"
    checkUpdates,  \* the useCheckAllUpdates mutation: "idle" | "pending"
    stInvoked,     \* the commands the startup effect has invoked, in order
    stToggles,     \* how often the user has changed the setting since launch
    \* ---- update progress store and its event listener ----
    progress,      \* useUpdateProgressStore: bundleId -> ProgressEntry
    relaunchNeeded, \* useUpdateProgressStore: bundleId -> RelaunchEntry
    timers,        \* per bundle, the pending setTimeout(clearProgress, 1500) callbacks
    exRunning,     \* engine: the bundles with an execution that has not ended
    exStarted,     \* per bundle, the executions started so far
    lastEvent,     \* per bundle, the last execution event handled: "none" | "progress" | "complete"
    lastComplete,  \* per bundle, what the last update-execute-complete handled carried
    \* ---- settings query and mutation ----
    persisted,     \* engine: the settings row
    seCache,       \* query data of ["settings"]: None while loading, or Some(settings)
    seFetch,       \* the get_settings in flight: [phase, value]
    seMutations,   \* the update_settings mutations, by number: [phase, arg, previous]
    seIssued,      \* how many mutations have been started
    seLastApplied, \* the argument of the update_settings that succeeded last, or None
    seHistory,     \* what happened so far: the value chosen last per field, whether a
                   \* write failed, whether the commands were served in order of issue
    \* ---- app list, update counts and "Update All" ----
    catalog,       \* engine: per bundle, [hasUpdate, isIgnored] of the app row
    windowMode,    \* useWindowMode() of this window: "desktop" | "panel"
    apps,          \* useApps().data of this window: None while loading, or Some(rows)
    updateCount,   \* desktop window, DesktopApp's memoized updateCount
    bulkPending,   \* UpdatesOverview's executeBulk mutation is pending
    lastPress,     \* the last press of "Update All": where, on which list, what it invoked
    \* ---- the percent shown for a progress entry ----
    pcProgress,    \* useUpdateProgressStore.progress of the window rendering one app
    pcCard,        \* UpdateCard: the effectivePercent of its last render, or None
    pcInline,      \* InlineUpdateProgress (AppRow): its effectivePercent, or None
    \* ---- self-update banner ----
    banner,        \* the state of SelfUpdateBanner (its useState values)
    suCheck,       \* the check_self_update of the mount effect: "pending" | "done"
    suExec,        \* engine: the self-update execution: "idle" | "running" | "progressed"
    suStarted,     \* how many execute_self_update commands have been invoked
    suEvents,      \* self-update-progress/-complete events emitted and not yet handled
    suResponse,    \* the answer of execute_self_update in flight, or None
    suRelaunch,    \* relaunch_self: "none" | "sent" | "done" (the process restarted)
    suSuccessSeen, \* a self-update-complete event with success = true has been handled
    \* ---- uninstall dialog ----
    uninstallTarget, \* uiStore.uninstallTarget: None or Some(target)
    associatedFiles, \* None, or Some(number of associated paths found)
    loadingFiles,
    cleanupChecked,
    filesExpanded,
    unScans,         \* bundle ids whose scan_associated_files has not answered yet
    unPending,       \* the uninstall mutation in flight, or None (uninstall.isPending)
    unInvoked,       \* every uninstall_app invocation made so far (its arguments)
    \* ---- the controls that start an execution ----
    lnProgress,    \* desktop window's store: the bundles with a progress entry
    lnRelaunch,    \* desktop window's store: the bundles with a relaunch-needed entry
    lnTimers,      \* the bundles with a pending delayed clearProgress
    lnCalls,       \* execute_update / execute_bulk_update commands that have not returned
    lnIssued,      \* how many such commands the GUI has issued
    \* ---- the crawling display percent ----
    cwProps,       \* the progress entry the bar was rendered with last, or None
    cwDisplay,     \* useCrawlingPercent: displayPercent, in thousandths of a percent
    cwLast,        \* useCrawlingPercent: lastPercent.current, in thousandths
    cwInterval,    \* the setInterval of the crawl effect is running
    cwTicks,       \* how often the interval callback has run
    \* ---- UI store ----
    selectedAppId, \* useUIStore.selectedAppId: NULL or a bundle id
    detailOpen,    \* useUIStore.detailOpen
    commandPaletteOpen, \* useUIStore.commandPaletteOpen
    uiCalls,       \* the calls made on the store so far, in order
    \* ---- relaunch buttons ----
    rlNeeded,      \* useUpdateProgressStore.relaunchNeeded of the window
    rlRelaunching, \* per bundle, isRelaunching of the mounted RelaunchButton
    rlCalls,       \* the relaunch_app commands that have not settled
    rlIssued,      \* how many relaunch_app commands have been invoked
    rlSettled      \* the settled relaunch_app commands and their outcomes

NULL == "null"

\* An optional value that is not a string: None, or Some(x).
None == <<>>
Some(x) == <<x>>
\* Number() yields a number or NaN.
NaN == [nan |-> TRUE, val |-> 0]
Num(n) == [nan |-> FALSE, val |-> n]

routeVars == <<rApp, rShown, rExec, rExecutor, rComplete>>
versionVars == <<vCurrent, vAvailable, vNewer, vThird, vOrder>>
startupVars ==
    <<stCatalog, stAutoCheck, stLaunch, stSettings, stApps, stSettingsFetch, stAppsFetch,
      hasRunStartup, fullScan, checkUpdates, stInvoked, stToggles>>

progressVars ==
    <<progress, relaunchNeeded, timers, exRunning, exStarted, lastEvent, lastComplete>>

settingsVars ==
    <<persisted, seCache, seFetch, seMutations, seIssued, seLastApplied, seHistory>>

appsVars == <<catalog, windowMode, apps, updateCount, bulkPending, lastPress>>

percentVars == <<pcProgress, pcCard, pcInline>>

selfVars ==
    <<banner, suCheck, suExec, suStarted, suEvents, suResponse, suRelaunch, suSuccessSeen>>

uninstallVars ==
    <<uninstallTarget, associatedFiles, loadingFiles, cleanupChecked, filesExpanded,
      unScans, unPending, unInvoked>>

launchVars == <<lnProgress, lnRelaunch, lnTimers, lnCalls, lnIssued>>

crawlVars == <<cwProps, cwDisplay, cwLast, cwInterval, cwTicks>>

uiVars == <<selectedAppId, detailOpen, commandPaletteOpen, uiCalls>>

relaunchVars == <<rlNeeded, rlRelaunching, rlCalls, rlIssued, rlSettled>>

vars == <<routeVars, versionVars, startupVars, progressVars, settingsVars, appsVars, percentVars, selfVars, uninstallVars, launchVars, crawlVars, uiVars, relaunchVars>>

\* What the actions of one group leave alone: the other groups.
RouteFrame ==
    UNCHANGED <<versionVars, startupVars, progressVars, settingsVars, appsVars, percentVars, selfVars, uninstallVars, launchVars, crawlVars, uiVars, relaunchVars>>
VersionFrame ==
    UNCHANGED <<routeVars, startupVars, progressVars, settingsVars, appsVars, percentVars, selfVars, uninstallVars, launchVars, crawlVars, uiVars, relaunchVars>>
StartupFrame ==
    UNCHANGED <<routeVars, versionVars, progressVars, settingsVars, appsVars, percentVars, selfVars, uninstallVars, launchVars, crawlVars, uiVars, relaunchVars>>
ProgressFrame ==
    UNCHANGED <<routeVars, versionVars, startupVars, settingsVars, appsVars, percentVars, selfVars, uninstallVars, launchVars, crawlVars, uiVars, relaunchVars>>
SettingsFrame ==
    UNCHANGED <<routeVars, versionVars, startupVars, progressVars, appsVars, percentVars, selfVars, uninstallVars, launchVars, crawlVars, uiVars, relaunchVars>>
AppsFrame ==
    UNCHANGED <<routeVars, versionVars, startupVars, progressVars, settingsVars, percentVars, selfVars, uninstallVars, launchVars, crawlVars, uiVars, relaunchVars>>
PercentFrame ==
    UNCHANGED <<routeVars, versionVars, startupVars, progressVars, settingsVars, appsVars, selfVars, uninstallVars, launchVars, crawlVars, uiVars, relaunchVars>>
SelfFrame ==
    UNCHANGED <<routeVars, versionVars, startupVars, progressVars, settingsVars, appsVars, percentVars, uninstallVars, launchVars, crawlVars, uiVars, relaunchVars>>
UninstallFrame ==
    UNCHANGED <<routeVars, versionVars, startupVars, progressVars, settingsVars, appsVars, percentVars, selfVars, launchVars, crawlVars, uiVars, relaunchVars>>
LaunchFrame ==
    UNCHANGED <<routeVars, versionVars, startupVars, progressVars, settingsVars, appsVars, percentVars, selfVars, uninstallVars, crawlVars, uiVars, relaunchVars>>
CrawlFrame ==
    UNCHANGED <<routeVars, versionVars, startupVars, progressVars, settingsVars, appsVars, percentVars, selfVars, uninstallVars, launchVars, uiVars, relaunchVars>>
UiFrame ==
    UNCHANGED <<routeVars, versionVars, startupVars, progressVars, settingsVars, appsVars, percentVars, selfVars, uninstallVars, launchVars, crawlVars, relaunchVars>>
RelaunchFrame ==
    UNCHANGED <<routeVars, versionVars, startupVars, progressVars, settingsVars, appsVars, percentVars, selfVars, uninstallVars, launchVars, crawlVars, uiVars>>

(***************************************************************************)
(* JavaScript truthiness of a nullable string (`if (app.updateSource)`).   *)
(***************************************************************************)
Truthy(s) == s # NULL /\ s # ""

(***************************************************************************)
(*                               ROUTING                                   *)
(***************************************************************************)
UpdateSources ==
    {"sparkle", "homebrew_cask", "homebrew_api", "mas", "github", "electron",
     "keystone", "microsoft_autoupdate", "jetbrains_toolbox", "adobe_cc", "mozilla"}

InstallSources == {"direct", "mac_app_store", "homebrew", "homebrew_formula", "unknown"}

\* A nullable cross-reference is absent (null) or a non-empty name.
CaskTokens == {NULL, "bitwarden"}
FormulaNames == {NULL, "wget"}

\* The AppSummary rows the routing is exercised on: an app with an available
\* update carries the candidate's source type, an app without one carries null.
RouteApps ==
    { [hasUpdate |-> us # NULL, updateSource |-> us, installSource |-> is,
       homebrewCaskToken |-> ct, homebrewFormulaName |-> fn] :
         us \in UpdateSources \cup {NULL}, is \in InstallSources,
         ct \in CaskTokens, fn \in FormulaNames }

\* Mutant of isDelegatedUpdate: adobe_cc is not decided in phase 1 and falls
\* through to phase 2.
isDelegatedUpdate_AdobeFallsThrough(app) ==
    LET phase2 ==
            IF app.installSource = "homebrew_formula" /\ Truthy(app.homebrewFormulaName)
              THEN FALSE
            ELSE IF app.installSource = "homebrew" /\ Truthy(app.homebrewCaskToken)
              THEN FALSE
            ELSE IF app.installSource = "mac_app_store"
              THEN FALSE
            ELSE TRUE
    IN  IF Truthy(app.updateSource)
          THEN CASE app.updateSource = "mas" -> FALSE
                 [] app.updateSource = "sparkle" -> FALSE
                 [] app.updateSource \in {"homebrew_cask", "github", "homebrew_api"} ->
                        IF Truthy(app.homebrewCaskToken) THEN FALSE ELSE phase2
                 [] OTHER -> phase2
          ELSE phase2

\* Mutant of isDelegatedUpdate: the cask-token test of phase 1 is dropped, so
\* homebrew_cask | github | homebrew_api never fall through to phase 2.
isDelegatedUpdate_NoFallThrough(app) ==
    IF Truthy(app.updateSource) /\ app.updateSource = "adobe_cc" THEN TRUE
    ELSE IF Truthy(app.updateSource)
            /\ app.updateSource \in {"mas", "sparkle", "homebrew_cask", "github", "homebrew_api"}
         THEN FALSE
    ELSE IF app.installSource = "homebrew_formula" /\ Truthy(app.homebrewFormulaName) THEN FALSE
    ELSE IF app.installSource = "homebrew" /\ Truthy(app.homebrewCaskToken) THEN FALSE
    ELSE IF app.installSource = "mac_app_store" THEN FALSE
    ELSE TRUE

\* isDelegatedUpdate(app): phase 1 switches on updateSource, phase 2 on installSource.
isDelegatedUpdate(app) ==
    LET phase2 ==
            IF app.installSource = "homebrew_formula" /\ Truthy(app.homebrewFormulaName)
              THEN FALSE
            ELSE IF app.installSource = "homebrew" /\ Truthy(app.homebrewCaskToken)
              THEN FALSE
            ELSE IF app.installSource = "mac_app_store"
              THEN FALSE
            ELSE TRUE
    IN  IF Truthy(app.updateSource)
          THEN CASE app.updateSource = "adobe_cc" -> TRUE
                 [] app.updateSource = "mas" -> FALSE
                 [] app.updateSource = "sparkle" -> FALSE
                 [] app.updateSource \in {"homebrew_cask", "github", "homebrew_api"} ->
                        IF Truthy(app.homebrewCaskToken) THEN FALSE ELSE phase2
                 [] OTHER -> phase2
          ELSE phase2

\* The engine's two-phase executor routing (spec 4.4), on the catalog row of the app.
RoutePhase2(app) ==
    IF app.installSource = "homebrew_formula" /\ app.homebrewFormulaName # NULL
      THEN "HomebrewFormula"
    ELSE IF app.installSource = "homebrew" /\ app.homebrewCaskToken # NULL
      THEN "Homebrew"
    ELSE IF app.installSource = "mac_app_store"
      THEN "AppStore"
    ELSE "Delegated"

RouteExecutor(app) ==
    CASE app.updateSource = "adobe_cc" -> "Delegated"
      [] app.updateSource = "mas" -> "AppStore"
      [] app.updateSource = "sparkle" -> "Direct"
      [] app.updateSource \in {"homebrew_cask", "github", "homebrew_api"} ->
             IF app.homebrewCaskToken # NULL THEN "Homebrew" ELSE RoutePhase2(app)
      [] OTHER -> RoutePhase2(app)

\* The update-execute-complete payload an executor ends with (spec 4.4): the
\* Delegated executor reports success and delegated at once; the AppStore
\* executor degrades to Delegated when the platform cannot service the request.
ExecutorCompletePayload(executor, canService, ok) ==
    IF executor = "Delegated" \/ (executor = "AppStore" /\ ~canService)
      THEN [success |-> TRUE, delegated |-> TRUE, needsRelaunch |-> FALSE]
      ELSE [success |-> ok, delegated |-> FALSE,
            needsRelaunch |-> (ok /\ executor = "Direct")]

RouteInit ==
    /\ rApp \in RouteApps
    /\ rShown = None
    /\ rExec = "idle"
    /\ rExecutor = NULL
    /\ rComplete = None

\* AppRow / UpdateCard render: the row of an app with an update asks
\* isDelegatedUpdate which button to show.
RenderUpdateButton ==
    /\ rApp.hasUpdate
    /\ rExec = "idle"
    /\ rShown = None
    /\ rShown' = Some(isDelegatedUpdate(rApp))
    /\ UNCHANGED <<rApp, rExec, rExecutor, rComplete>>
    /\ RouteFrame

\* execute_update(bundle_id): the orchestrator selects the executor.
ExecuteUpdateRouted ==
    /\ rApp.hasUpdate
    /\ rShown # None
    /\ rExec = "idle"
    /\ rExec' = "running"
    /\ rExecutor' = RouteExecutor(rApp)
    /\ UNCHANGED <<rApp, rShown, rComplete>>
    /\ RouteFrame

\* The executor ends with its one update-execute-complete event.
ExecutorEnds ==
    /\ rExec = "running"
    /\ \E canService \in BOOLEAN, ok \in BOOLEAN :
          rComplete' = Some(ExecutorCompletePayload(rExecutor, canService, ok))
    /\ rExec' = "done"
    /\ UNCHANGED <<rApp, rShown, rExecutor>>
    /\ RouteFrame

RouteNext == RenderUpdateButton \/ ExecuteUpdateRouted \/ ExecutorEnds

(***************************************************************************)
(*                          VERSION COMPARISON                             *)
(***************************************************************************)
Digits == <<"0", "1", "2", "3", "4", "5", "6", "7", "8", "9">>

IsDigit(c) == \E i \in 1..10 : Digits[i] = c
DigitVal(c) == (CHOOSE i \in 1..10 : Digits[i] = c) - 1
IsDigits(s) == Len(s) > 0 /\ \A i \in 1..Len(s) : IsDigit(s[i])

RECURSIVE DecVal(_)
DecVal(s) == IF s = <<>> THEN 0 ELSE 10 * DecVal(SubSeq(s, 1, Len(s) - 1)) + DigitVal(s[Len(s)])

\* Number(segment) on the strings of the model's alphabet (digits, "-", "+" and
\* letters other than those of exponent or radix literals): the empty string
\* is 0, an optionally signed run of digits is its value, the rest is NaN.
Number(s) ==
    IF s = <<>> THEN Num(0)
    ELSE IF IsDigits(s) THEN Num(DecVal(s))
    ELSE IF s[1] = "-" /\ IsDigits(Tail(s)) THEN Num(0 - DecVal(Tail(s)))
    ELSE IF s[1] = "+" /\ IsDigits(Tail(s)) THEN Num(DecVal(Tail(s)))
    ELSE NaN

\* String.prototype.split("."): the pieces between the dots, empty pieces kept.
RECURSIVE split(_)
split(s) ==
    IF \A i \in 1..Len(s) : s[i] # "." THEN <<s>>
    ELSE LET d == CHOOSE i \in 1..Len(s) : s[i] = "." /\ \A j \in 1..(i - 1) : s[j] # "."
         IN  <<SubSeq(s, 1, d - 1)>> \o split(SubSeq(s, d + 1, Len(s)))

\* parts[i] || 0 : undefined (past the end), NaN and 0 all give 0.
PartOrZero(parts, i) ==
    IF i > Len(parts) THEN 0
    ELSE IF parts[i].nan THEN 0
    ELSE parts[i].val

Max(a, b) == IF a >= b THEN a ELSE b

RECURSIVE CompareFrom(_, _, _, _)
CompareFrom(currentParts, availableParts, i, maxLen) ==
    IF i > maxLen THEN FALSE
    ELSE LET a == PartOrZero(currentParts, i)
             b == PartOrZero(availableParts, i)
         IN  IF b > a THEN TRUE
             ELSE IF b < a THEN FALSE
             ELSE CompareFrom(currentParts, availableParts, i + 1, maxLen)

\* The characters of the model's version strings, in code-unit order.
Alphabet ==
    <<"+", "-", ".", "0", "1", "2", "3", "4", "5", "6", "7", "8", "9",
      "a", "b", "c", "e", "h", "l", "p", "r", "t">>
CharRank(c) == CHOOSE i \in 1..Len(Alphabet) : Alphabet[i] = c

\* The `<` of two strings: by code units, a proper prefix first.
RECURSIVE StringLess(_, _)
StringLess(x, y) ==
    IF y = <<>> THEN FALSE
    ELSE IF x = <<>> THEN TRUE
    ELSE IF CharRank(Head(x)) # CharRank(Head(y)) THEN CharRank(Head(x)) < CharRank(Head(y))
    ELSE StringLess(Tail(x), Tail(y))

RECURSIVE StringCompareFrom(_, _, _, _)
StringCompareFrom(currentParts, availableParts, i, maxLen) ==
    IF i > maxLen THEN FALSE
    ELSE LET a == IF i > Len(currentParts) THEN <<"0">> ELSE currentParts[i]
             b == IF i > Len(availableParts) THEN <<"0">> ELSE availableParts[i]
         IN  IF StringLess(a, b) THEN TRUE
             ELSE IF StringLess(b, a) THEN FALSE
             ELSE StringCompareFrom(currentParts, availableParts, i + 1, maxLen)

\* Mutant of isVersionNewer: the segments are not mapped through Number and
\* are compared as strings.
isVersionNewer_StringCompare(current, available) ==
    StringCompareFrom(split(current), split(available), 1,
                      Max(Len(split(current)), Len(split(available))))

\* Mutant of isVersionNewer: the loop stops at the shorter version and the
\* longer one of two versions with equal leading segments is the newer.
isVersionNewer_LongerIsNewer(current, available) ==
    LET currentParts == [i \in 1..Len(split(current)) |-> Number(split(current)[i])]
        availableParts == [i \in 1..Len(split(available)) |-> Number(split(available)[i])]
        minLen == IF Len(currentParts) <= Len(availableParts)
                    THEN Len(currentParts) ELSE Len(availableParts)
        differ == { i \in 1..minLen :
                      PartOrZero(currentParts, i) # PartOrZero(availableParts, i) }
    IN  IF differ = {}
          THEN Len(availableParts) > Len(currentParts)
          ELSE CompareFrom(currentParts, availableParts, 1, minLen)

\* Mutant of isVersionNewer: `b >= a` for `b > a`, so a version that is not
\* older counts as newer.
isVersionNewer_NotOlder(current, available) ==
    LET currentParts == [i \in 1..Len(split(current)) |-> Number(split(current)[i])]
        availableParts == [i \in 1..Len(split(available)) |-> Number(split(available)[i])]
        maxLen == Max(Len(currentParts), Len(availableParts))
    IN  \/ CompareFrom(currentParts, availableParts, 1, maxLen)
        \/ \A i \in 1..maxLen :
               PartOrZero(currentParts, i) = PartOrZero(availableParts, i)

isVersionNewer(current, available) ==
    LET currentParts == [i \in 1..Len(split(current)) |-> Number(split(current)[i])]
        availableParts == [i \in 1..Len(split(available)) |-> Number(split(available)[i])]
        maxLen == Max(Len(currentParts), Len(availableParts))
    IN  CompareFrom(currentParts, availableParts, 1, maxLen)

\* The version strings the comparison is exercised on: up to MaxSegments
\* segments of VersionSegments joined by dots.
MaxSegments == 3

VersionSegments ==
    { <<"0">>, <<"1">>, <<"9">>, <<"1", "0">>, <<"0", "-", "r", "c">> }

RECURSIVE VersionsOfLength(_)
VersionsOfLength(n) ==
    IF n = 1 THEN VersionSegments
    ELSE { v \o <<".">> \o s : v \in VersionsOfLength(n - 1), s \in VersionSegments }

V_2_0 == <<"2", ".", "0">>
V_2_0_rc_1 == <<"2", ".", "0", "-", "r", "c", ".", "1">>
V_1_0_alpha == <<"1", ".", "0", "-", "a", "l", "p", "h", "a">>
V_1_0_beta == <<"1", ".", "0", "-", "b", "e", "t", "a">>

\* The versions the spec names in its comparator laws, next to the generated ones.
NamedVersions == { V_2_0, V_2_0_rc_1, V_1_0_alpha, V_1_0_beta }

Versions == UNION { VersionsOfLength(n) : n \in 1..MaxSegments } \cup NamedVersions

\* v is prefix followed by a pre-release suffix ("-rc.1" after "2.0").
IsPreReleaseOf(v, prefix) ==
    /\ Len(v) > Len(prefix)
    /\ SubSeq(v, 1, Len(prefix)) = prefix
    /\ v[Len(prefix) + 1] = "-"

VersionInit ==
    /\ vCurrent \in Versions
    /\ vAvailable \in Versions
    /\ vNewer = None
    /\ vThird = <<"0">>
    /\ vOrder = None

\* A caller compares the installed version with the available one.
CompareVersions ==
    /\ vNewer = None
    /\ vNewer' = Some(isVersionNewer(vCurrent, vAvailable))
    /\ UNCHANGED <<vCurrent, vAvailable, vThird, vOrder>>
    /\ VersionFrame

VersionNext == CompareVersions

\* The versions the order of the comparison is exercised on, three at a time:
\* up to MaxOrderSegments segments of OrderSegments joined by dots.
MaxOrderSegments == 2

OrderSegments == { <<"0">>, <<"1", "0">>, <<"0", "-", "r", "c">> }

RECURSIVE OrderVersionsOfLength(_)
OrderVersionsOfLength(n) ==
    IF n = 1 THEN OrderSegments
    ELSE { v \o <<".">> \o s : v \in OrderVersionsOfLength(n - 1), s \in OrderSegments }

OrderVersions == UNION { OrderVersionsOfLength(n) : n \in 1..MaxOrderSegments }

VersionOrderInit ==
    /\ vCurrent \in OrderVersions
    /\ vAvailable \in OrderVersions
    /\ vThird \in OrderVersions
    /\ vNewer = None
    /\ vOrder = None

\* Callers compare three versions a = vCurrent, b = vAvailable, c = vThird with
\* one another: xy is isVersionNewer(x, y), "y is newer than x".
CompareThreeVersions ==
    /\ vOrder = None
    /\ vOrder' = Some([aa |-> isVersionNewer(vCurrent, vCurrent),
                       ab |-> isVersionNewer(vCurrent, vAvailable),
                       ba |-> isVersionNewer(vAvailable, vCurrent),
                       bc |-> isVersionNewer(vAvailable, vThird),
                       ac |-> isVersionNewer(vCurrent, vThird)])
    /\ UNCHANGED <<vCurrent, vAvailable, vNewer, vThird>>
    /\ VersionFrame

VersionOrderNext == CompareThreeVersions

(***************************************************************************)
(*                     STARTUP OF THE DESKTOP WINDOW                       *)
(***************************************************************************)
Bundles == {"com.a", "com.b"}

\* The apps a scan finds on disk.
OnDisk == {"com.a"}

MaxToggles == 1

\* Mutant of StartupEffect: the first-launch scan is gated on the setting too.
StartupEffect_GatedFirstLaunch(settings, appsData, ran) ==
    IF settings = None \/ ran THEN [ran |-> ran, cmd |-> "none"]
    ELSE IF settings[1].autoCheckOnLaunch
      THEN [ran |-> TRUE,
            cmd |-> IF appsData = None \/ Cardinality(appsData[1]) = 0
                      THEN "scan_then_check" ELSE "check"]
    ELSE [ran |-> TRUE, cmd |-> "none"]

\* Mutant of StartupEffect: hasRunStartup is set but never read.
StartupEffect_Unguarded(settings, appsData, ran) ==
    IF settings = None THEN [ran |-> ran, cmd |-> "none"]
    ELSE IF appsData = None \/ Cardinality(appsData[1]) = 0
      THEN [ran |-> TRUE, cmd |-> "scan_then_check"]
    ELSE IF settings[1].autoCheckOnLaunch
      THEN [ran |-> TRUE, cmd |-> "check"]
    ELSE [ran |-> TRUE, cmd |-> "none"]

\* The startup effect of DesktopApp, run after a render in which settings or
\* apps changed: the new value of hasRunStartup and the mutation it starts.
StartupEffect(settings, appsData, ran) ==
    IF settings = None \/ ran THEN [ran |-> ran, cmd |-> "none"]
    ELSE IF appsData = None \/ Cardinality(appsData[1]) = 0
      THEN [ran |-> TRUE, cmd |-> "scan_then_check"]
    ELSE IF settings[1].autoCheckOnLaunch
      THEN [ran |-> TRUE, cmd |-> "check"]
    ELSE [ran |-> TRUE, cmd |-> "none"]

\* The effect applied to the state: fullScan.mutate(undefined, {onSuccess}) invokes
\* trigger_full_scan, checkUpdates.mutate() invokes check_all_updates.
RunStartupEffect(settings, appsData) ==
    LET e == StartupEffect(settings, appsData, hasRunStartup)
    IN  /\ hasRunStartup' = e.ran
        /\ fullScan' = IF e.cmd = "scan_then_check" THEN "pending" ELSE fullScan
        /\ checkUpdates' = IF e.cmd = "check" THEN "pending" ELSE checkUpdates
        /\ stInvoked' = CASE e.cmd = "scan_then_check" -> Append(stInvoked, "trigger_full_scan")
                          [] e.cmd = "check" -> Append(stInvoked, "check_all_updates")
                          [] OTHER -> stInvoked

StartupInit ==
    /\ stCatalog \in SUBSET Bundles
    /\ stAutoCheck \in BOOLEAN
    /\ stLaunch = [catalog |-> stCatalog, autoCheckOnLaunch |-> stAutoCheck]
    /\ stSettings = None
    /\ stApps = None
    /\ stSettingsFetch = "fetching"
    /\ stAppsFetch = "fetching"
    /\ hasRunStartup = FALSE
    /\ fullScan = "idle"
    /\ checkUpdates = "idle"
    /\ stInvoked = <<>>
    /\ stToggles = 0

\* get_settings answers: useSettings().data is set, DesktopApp renders and its
\* startup effect runs.
SettingsQueryResolves ==
    /\ stSettingsFetch = "fetching"
    /\ stSettingsFetch' = "idle"
    /\ stSettings' = Some([autoCheckOnLaunch |-> stAutoCheck])
    /\ RunStartupEffect(stSettings', stApps)
    /\ UNCHANGED <<stCatalog, stAutoCheck, stLaunch, stApps, stAppsFetch, stToggles>>
    /\ StartupFrame

\* get_all_apps answers (the first fetch or a refetch after an invalidation).
AppsQueryResolves ==
    /\ stAppsFetch = "fetching"
    /\ stAppsFetch' = "idle"
    /\ stApps' = Some(stCatalog)
    /\ RunStartupEffect(stSettings, stApps')
    /\ UNCHANGED <<stCatalog, stAutoCheck, stLaunch, stSettings, stSettingsFetch, stToggles>>
    /\ StartupFrame

\* trigger_full_scan answers. The scan has upserted the apps on disk. On success
\* useFullScan's onSuccess invalidates ["apps"] (a refetch) and the onSuccess
\* given to mutate() starts checkUpdates.
FullScanSettles ==
    /\ fullScan = "pending"
    /\ fullScan' = "idle"
    /\ \E ok \in BOOLEAN :
          IF ok
            THEN /\ stCatalog' = stCatalog \cup OnDisk
                 /\ stAppsFetch' = "fetching"
                 /\ checkUpdates' = "pending"
                 /\ stInvoked' = Append(stInvoked, "check_all_updates")
            ELSE UNCHANGED <<stCatalog, stAppsFetch, checkUpdates, stInvoked>>
    /\ UNCHANGED <<stAutoCheck, stLaunch, stSettings, stApps, stSettingsFetch,
                   hasRunStartup, stToggles>>
    /\ StartupFrame

\* check_all_updates answers; on success ["apps"] is invalidated (a refetch).
CheckUpdatesSettles ==
    /\ checkUpdates = "pending"
    /\ checkUpdates' = "idle"
    /\ \E ok \in BOOLEAN :
          stAppsFetch' = IF ok THEN "fetching" ELSE stAppsFetch
    /\ UNCHANGED <<stCatalog, stAutoCheck, stLaunch, stSettings, stApps, stSettingsFetch,
                   hasRunStartup, fullScan, stInvoked, stToggles>>
    /\ StartupFrame

\* The user flips "Check on launch" in the settings view (shown once the
\* settings are loaded): the cached settings change and the effect runs again.
ToggleAutoCheckOnLaunch ==
    /\ stSettings # None
    /\ stToggles < MaxToggles
    /\ stToggles' = stToggles + 1
    /\ stAutoCheck' = ~stSettings[1].autoCheckOnLaunch
    /\ stSettings' = Some([autoCheckOnLaunch |-> ~stSettings[1].autoCheckOnLaunch])
    /\ RunStartupEffect(stSettings', stApps)
    /\ UNCHANGED <<stCatalog, stLaunch, stApps, stSettingsFetch, stAppsFetch>>
    /\ StartupFrame

StartupNext ==
    \/ SettingsQueryResolves
    \/ AppsQueryResolves
    \/ FullScanSettles
    \/ CheckUpdatesSettles
    \/ ToggleAutoCheckOnLaunch

(***************************************************************************)
(*              UPDATE PROGRESS STORE AND ITS EVENT LISTENER               *)
(***************************************************************************)
MaxExecutions == 2

AppPaths == {NULL, "/Applications/A.app"}

\* update-execute-progress payloads (without the bundle id).
ProgressPayloads ==
    { [phase |-> "Downloading", percent |-> 10,
       downloadedBytes |-> Some(100), totalBytes |-> Some(200)],
      [phase |-> "Installing", percent |-> 80,
       downloadedBytes |-> None, totalBytes |-> None] }

\* update-execute-complete payloads (without the bundle id and display name);
\* delegated is optional.
CompletePayloads ==
    [success : BOOLEAN, needsRelaunch : BOOLEAN, appPath : AppPaths,
     delegated : {None, Some(TRUE), Some(FALSE)}]

\* A function without the key b (`const { [bundleId]: _, ...rest } = ...`).
Without(f, b) == [k \in DOMAIN f \ {b} |-> f[k]]
\* A function with the key b set to v (`{ ...f, [bundleId]: v }`).
With(f, b, v) == [k \in DOMAIN f \cup {b} |-> IF k = b THEN v ELSE f[k]]

\* Mutant of setProgress: the other entries are not spread into the new record.
setProgress_NoSpread(prog, bundleId, phase, percent, downloadedBytes, totalBytes) ==
    [k \in {bundleId} |->
        [bundleId |-> bundleId, phase |-> phase, percent |-> percent,
         downloadedBytes |-> downloadedBytes, totalBytes |-> totalBytes]]

setProgress(prog, bundleId, phase, percent, downloadedBytes, totalBytes) ==
    With(prog, bundleId,
         [bundleId |-> bundleId, phase |-> phase, percent |-> percent,
          downloadedBytes |-> downloadedBytes, totalBytes |-> totalBytes])

clearProgress(prog, bundleId) == Without(prog, bundleId)

setRelaunchNeeded(relaunch, bundleId, appPath) ==
    With(relaunch, bundleId, [bundleId |-> bundleId, appPath |-> appPath])

clearRelaunch(relaunch, bundleId) == Without(relaunch, bundleId)

\* handleProgress(payload): the store after the event.
handleProgress(prog, bundleId, payload) ==
    setProgress(prog, bundleId, payload.phase, payload.percent,
                payload.downloadedBytes, payload.totalBytes)

\* What the model remembers of a handled update-execute-complete payload.
Carried(payload) ==
    [delegated |-> (payload.delegated = Some(TRUE)),
     relaunch |-> (payload.needsRelaunch /\ Truthy(payload.appPath)),
     appPath |-> IF payload.needsRelaunch THEN payload.appPath ELSE NULL]

\* The completion asks for a relaunch of the app at a path, and is not delegated.
RelaunchBranch(carried) ==
    /\ ~carried.delegated
    /\ carried.relaunch

\* Mutant of handleComplete: the last branch (no relaunch, not delegated)
\* schedules no clear.
handleComplete_NoClearInElse(prog, relaunch, tmrs, bundleId, payload) ==
    IF payload.delegated = Some(TRUE)
      THEN [progress |-> prog, relaunchNeeded |-> relaunch,
            timers |-> [tmrs EXCEPT ![bundleId] = @ + 1]]
    ELSE IF payload.needsRelaunch /\ Truthy(payload.appPath)
      THEN [progress |-> clearProgress(prog, bundleId),
            relaunchNeeded |-> setRelaunchNeeded(relaunch, bundleId, payload.appPath),
            timers |-> tmrs]
    ELSE [progress |-> prog, relaunchNeeded |-> relaunch, timers |-> tmrs]

\* Mutant of handleComplete: the relaunch branch leaves the progress entry.
handleComplete_KeepsProgress(prog, relaunch, tmrs, bundleId, payload) ==
    IF payload.delegated = Some(TRUE)
      THEN [progress |-> prog, relaunchNeeded |-> relaunch,
            timers |-> [tmrs EXCEPT ![bundleId] = @ + 1]]
    ELSE IF payload.needsRelaunch /\ Truthy(payload.appPath)
      THEN [progress |-> prog,
            relaunchNeeded |-> setRelaunchNeeded(relaunch, bundleId, payload.appPath),
            timers |-> tmrs]
    ELSE [progress |-> prog, relaunchNeeded |-> relaunch,
          timers |-> [tmrs EXCEPT ![bundleId] = @ + 1]]

\* Mutant of handleComplete: the relaunch test comes before the delegated test.
handleComplete_RelaunchFirst(prog, relaunch, tmrs, bundleId, payload) ==
    IF payload.needsRelaunch /\ Truthy(payload.appPath)
      THEN [progress |-> clearProgress(prog, bundleId),
            relaunchNeeded |-> setRelaunchNeeded(relaunch, bundleId, payload.appPath),
            timers |-> tmrs]
    ELSE [progress |-> prog, relaunchNeeded |-> relaunch,
          timers |-> [tmrs EXCEPT ![bundleId] = @ + 1]]

\* handleComplete(payload): the store and the pending timers after the event.
handleComplete(prog, relaunch, tmrs, bundleId, payload) ==
    IF payload.delegated = Some(TRUE)
      THEN [progress |-> prog, relaunchNeeded |-> relaunch,
            timers |-> [tmrs EXCEPT ![bundleId] = @ + 1]]
    ELSE IF payload.needsRelaunch /\ Truthy(payload.appPath)
      THEN [progress |-> clearProgress(prog, bundleId),
            relaunchNeeded |-> setRelaunchNeeded(relaunch, bundleId, payload.appPath),
            timers |-> tmrs]
    ELSE [progress |-> prog, relaunchNeeded |-> relaunch,
          timers |-> [tmrs EXCEPT ![bundleId] = @ + 1]]

\* UpdateCard / AppRow show a bundle as updating while it has a progress entry.
IsShownUpdating(b) == b \in DOMAIN progress

ProgressInit ==
    /\ progress = <<>>
    /\ relaunchNeeded = <<>>
    /\ timers = [b \in Bundles |-> 0]
    /\ exRunning = {}
    /\ exStarted = [b \in Bundles |-> 0]
    /\ lastEvent = [b \in Bundles |-> "none"]
    /\ lastComplete = [b \in Bundles |-> None]

\* execute_update(b) is accepted: at most one execution per bundle.
ExecutionStarts(b) ==
    /\ b \notin exRunning
    /\ exStarted[b] < MaxExecutions
    /\ exRunning' = exRunning \cup {b}
    /\ exStarted' = [exStarted EXCEPT ![b] = @ + 1]
    /\ UNCHANGED <<progress, relaunchNeeded, timers, lastEvent, lastComplete>>
    /\ ProgressFrame

\* An update-execute-progress event of b's execution reaches the listener.
ProgressEvent(b) ==
    /\ b \in exRunning
    /\ \E payload \in ProgressPayloads : progress' = handleProgress(progress, b, payload)
    /\ lastEvent' = [lastEvent EXCEPT ![b] = "progress"]
    /\ UNCHANGED <<relaunchNeeded, timers, exRunning, exStarted, lastComplete>>
    /\ ProgressFrame

\* The update-execute-complete event of b's execution, its last event, reaches
\* the listener.
CompleteEvent(b) ==
    /\ b \in exRunning
    /\ exRunning' = exRunning \ {b}
    /\ \E payload \in CompletePayloads :
          LET after == handleComplete(progress, relaunchNeeded, timers, b, payload)
          IN  /\ progress' = after.progress
              /\ relaunchNeeded' = after.relaunchNeeded
              /\ timers' = after.timers
              /\ lastComplete' = [lastComplete EXCEPT ![b] = Some(Carried(payload))]
    /\ lastEvent' = [lastEvent EXCEPT ![b] = "complete"]
    /\ UNCHANGED exStarted
    /\ ProgressFrame

\* A timer set by handleComplete for b fires: clearProgress(b).
ClearTimerFires(b) ==
    /\ timers[b] > 0
    /\ timers' = [timers EXCEPT ![b] = @ - 1]
    /\ progress' = clearProgress(progress, b)
    /\ UNCHANGED <<relaunchNeeded, exRunning, exStarted, lastEvent, lastComplete>>
    /\ ProgressFrame

ProgressNext ==
    \E b \in Bundles :
        \/ ExecutionStarts(b)
        \/ ProgressEvent(b)
        \/ CompleteEvent(b)
        \/ ClearTimerFires(b)

(***************************************************************************)
(*                     SETTINGS QUERY AND MUTATION                         *)
(***************************************************************************)
MaxUpdates == 3

\* The fields of AppSettings the model keeps, and the values the settings
\* views offer for them.
SettingsFields == {"autoCheckOnLaunch", "scanDepth"}
FieldValues(f) == IF f = "autoCheckOnLaunch" THEN BOOLEAN ELSE {1, 2}
SettingsValues == [autoCheckOnLaunch : BOOLEAN, scanDepth : {1, 2}]
DefaultSettings == [autoCheckOnLaunch |-> TRUE, scanDepth |-> 2]

NoFetch == [phase |-> "none", value |-> DefaultSettings]
SentFetch == [phase |-> "sent", value |-> DefaultSettings]
NoMutation == [phase |-> "none", arg |-> DefaultSettings, previous |-> None]
NoHistory ==
    [chosen |-> [f \in SettingsFields |-> None], failed |-> FALSE, inOrder |-> TRUE]

\* queryClient.cancelQueries(["settings"]): a fetch in flight is dropped; the
\* data stays as it is.
cancelQueries(fetch) == NoFetch

\* queryClient.invalidateQueries(["settings"]): the mounted query refetches;
\* a fetch already in flight is cancelled in favour of the new one.
invalidateQueries(fetch) == SentFetch

\* useUpdateSettings.onMutate: the in-flight fetch is cancelled, the cache is
\* remembered and replaced by the new settings.
onMutate(cache, fetch, newSettings) ==
    [fetch |-> cancelQueries(fetch), previous |-> cache, cache |-> Some(newSettings)]

\* Mutant of onError: the optimistic value is left in the cache.
onError_KeepsOptimistic(cache, previous) == cache

\* useUpdateSettings.onError: the remembered cache, when there is one, is put back.
onError(cache, previous) == IF previous # None THEN previous ELSE cache

\* Mutant of onSettled: the settled mutation does not invalidate the query.
onSettled_NoInvalidate(fetch) == fetch

\* useUpdateSettings.onSettled: the query is invalidated.
onSettled(fetch) == invalidateQueries(fetch)

\* handleUpdate(partial) of a settings view, for a one-field partial.
handleUpdate(settings, field, value) == [settings EXCEPT ![field] = value]

SettingsInit ==
    /\ persisted \in SettingsValues
    /\ seCache = None
    /\ seFetch = SentFetch
    /\ seMutations = [m \in 1..MaxUpdates |-> NoMutation]
    /\ seIssued = 0
    /\ seLastApplied = None
    /\ seHistory = NoHistory

\* The engine serves get_settings: it reads the settings row.
GetSettingsServed ==
    /\ seFetch.phase = "sent"
    /\ seFetch' = [phase |-> "answered", value |-> persisted]
    /\ UNCHANGED <<persisted, seCache, seMutations, seIssued, seLastApplied, seHistory>>
    /\ SettingsFrame

\* The answer of get_settings reaches the query: its data is replaced.
GetSettingsResolves ==
    /\ seFetch.phase = "answered"
    /\ seCache' = Some(seFetch.value)
    /\ seFetch' = NoFetch
    /\ UNCHANGED <<persisted, seMutations, seIssued, seLastApplied, seHistory>>
    /\ SettingsFrame

\* The user changes one field in a settings view (rendered once the settings
\* are loaded): updateSettings.mutate({...settings, ...partial}) runs onMutate
\* and invokes update_settings.
ChangeSetting ==
    /\ seCache # None
    /\ seIssued < MaxUpdates
    /\ \E f \in SettingsFields : \E v \in FieldValues(f) :
          LET newSettings == handleUpdate(seCache[1], f, v)
              m == onMutate(seCache, seFetch, newSettings)
          IN  /\ seCache' = m.cache
              /\ seFetch' = m.fetch
              /\ seMutations' = [seMutations EXCEPT ![seIssued + 1] =
                     [phase |-> "sent", arg |-> newSettings, previous |-> m.previous]]
              /\ seHistory' = [seHistory EXCEPT !.chosen[f] = Some(v)]
    /\ seIssued' = seIssued + 1
    /\ UNCHANGED <<persisted, seLastApplied>>
    /\ SettingsFrame

\* The engine serves an update_settings in flight: put_settings stores the
\* settings, or the write fails and nothing is stored.
UpdateSettingsServed(m) ==
    /\ seMutations[m].phase = "sent"
    /\ \E ok \in BOOLEAN :
          /\ IF ok
               THEN /\ persisted' = seMutations[m].arg
                    /\ seLastApplied' = Some(seMutations[m].arg)
                    /\ seMutations' = [seMutations EXCEPT ![m].phase = "succeeded"]
               ELSE /\ seMutations' = [seMutations EXCEPT ![m].phase = "failed"]
                    /\ UNCHANGED <<persisted, seLastApplied>>
          /\ seHistory' = [seHistory EXCEPT
                 !.failed = @ \/ ~ok,
                 !.inOrder = @ /\ \A k \in 1..(m - 1) : seMutations[k].phase # "sent"]
    /\ UNCHANGED <<seCache, seFetch, seIssued>>
    /\ SettingsFrame

\* The answer of update_settings reaches the mutation: onError on a failure,
\* then onSettled.
UpdateSettingsSettles(m) ==
    /\ seMutations[m].phase \in {"succeeded", "failed"}
    /\ seCache' = IF seMutations[m].phase = "failed"
                    THEN onError(seCache, seMutations[m].previous)
                    ELSE seCache
    /\ seFetch' = onSettled(seFetch)
    /\ seMutations' = [seMutations EXCEPT ![m] = NoMutation]
    /\ UNCHANGED <<persisted, seIssued, seLastApplied, seHistory>>
    /\ SettingsFrame

SettingsNext ==
    \/ GetSettingsServed
    \/ GetSettingsResolves
    \/ ChangeSetting
    \/ \E m \in 1..MaxUpdates : UpdateSettingsServed(m)
    \/ \E m \in 1..MaxUpdates : UpdateSettingsSettles(m)

\* No settings request is in flight.
SettingsSettled ==
    /\ seFetch.phase = "none"
    /\ \A m \in 1..MaxUpdates : seMutations[m].phase = "none"

(***************************************************************************)
(*              APP LIST, UPDATE COUNTS AND "UPDATE ALL"                   *)
(***************************************************************************)
\* The text fields of the AppSummary rows, as character sequences.
DisplayName(b) == IF b = "com.a" THEN <<"Z", "e", "d">> ELSE <<"a", "b", "c">>
BundleIdChars(b) ==
    IF b = "com.a" THEN <<"c", "o", "m", ".", "a">> ELSE <<"c", "o", "m", ".", "b">>
InstallSourceChars(b) ==
    IF b = "com.a" THEN <<"d", "i", "r", "e", "c", "t">> ELSE <<"h", "o", "m", "e", "b", "r", "e", "w">>
\* displayName.localeCompare order of the names: "abc" sorts before "Zed".
NameRank(b) == IF b = "com.a" THEN 2 ELSE 1
\* installSource.localeCompare order: "direct" sorts before "homebrew".
SourceRank(b) == IF b = "com.a" THEN 1 ELSE 2

\* The order in which get_all_apps returns the rows.
BundleOrder == <<"com.a", "com.b">>

\* get_all_apps: the AppSummary rows of the catalog.
GetAllApps(cat) ==
    [i \in 1..Len(BundleOrder) |->
        [bundleId |-> BundleOrder[i],
         hasUpdate |-> cat[BundleOrder[i]].hasUpdate,
         isIgnored |-> cat[BundleOrder[i]].isIgnored]]

Updatable(a) == a.hasUpdate /\ ~a.isIgnored

\* Mutant of DesktopUpdateCount: ignored apps are counted too.
DesktopUpdateCount_CountsIgnored(data) ==
    IF data = None THEN 0 ELSE Len(SelectSeq(data[1], LAMBDA a : a.hasUpdate))

\* DesktopApp: apps?.filter((a) => a.hasUpdate && !a.isIgnored).length ?? 0
DesktopUpdateCount(data) ==
    IF data = None THEN 0 ELSE Len(SelectSeq(data[1], Updatable))

\* MenuBarApp: updatableApps = apps?.filter(...) ?? [] ; updateCount = its length
MenuBarUpdatableApps(data) == IF data = None THEN <<>> ELSE SelectSeq(data[1], Updatable)
MenuBarUpdateCount(data) == Len(MenuBarUpdatableApps(data))

\* UpdatesOverview: updatableApps and updateCount
OverviewUpdatableApps(data) == IF data = None THEN <<>> ELSE SelectSeq(data[1], Updatable)
OverviewUpdateCount(data) == Len(OverviewUpdatableApps(data))

\* String.prototype.toLowerCase on the model's alphabet.
LowerChar(c) == IF c = "Z" THEN "z" ELSE c
toLowerCase(str) == [i \in 1..Len(str) |-> LowerChar(str[i])]

\* String.prototype.trim: leading and trailing blanks removed.
RECURSIVE trim(_)
trim(str) ==
    IF str = <<>> THEN str
    ELSE IF Head(str) = " " THEN trim(Tail(str))
    ELSE IF str[Len(str)] = " " THEN trim(SubSeq(str, 1, Len(str) - 1))
    ELSE str

\* String.prototype.includes
includes(str, q) ==
    \E i \in 0..(Len(str) - Len(q)) : SubSeq(str, i + 1, i + Len(q)) = q

\* The search strings typed into the list's search box.
Searches == { <<>>, <<" ">>, <<"z">>, <<"b", " ">>, <<"q">> }
FilterViews == {"all", "updates", "ignored"}
SortFields == {"name", "source", "status"}
SortDirections == {"asc", "desc"}

\* filterApps(apps, search, filterView) of AppListView.
filterApps(rows, search, filterView) ==
    LET byView ==
            IF filterView = "updates" THEN SelectSeq(rows, LAMBDA a : a.hasUpdate)
            ELSE IF filterView = "ignored" THEN SelectSeq(rows, LAMBDA a : a.isIgnored)
            ELSE rows
        q == trim(toLowerCase(search))
    IN  IF trim(search) # <<>>
          THEN SelectSeq(byView, LAMBDA a :
                  \/ includes(toLowerCase(DisplayName(a.bundleId)), q)
                  \/ includes(toLowerCase(BundleIdChars(a.bundleId)), q)
                  \/ includes(toLowerCase(InstallSourceChars(a.bundleId)), q))
          ELSE byView

\* The comparator of sortApps: negative, zero or positive.
StatusVal(a) == IF a.hasUpdate THEN 0 ELSE IF a.isIgnored THEN 2 ELSE 1
SortCompare(a, b, field, direction) ==
    LET dir == IF direction = "asc" THEN 1 ELSE -1
    IN  CASE field = "name" -> dir * (NameRank(a.bundleId) - NameRank(b.bundleId))
          [] field = "source" -> dir * (SourceRank(a.bundleId) - SourceRank(b.bundleId))
          [] field = "status" -> dir * (StatusVal(a) - StatusVal(b))
          [] OTHER -> 0

\* Array.prototype.sort (stable): each row is inserted after the rows that do
\* not compare greater than it.
RECURSIVE InsertSorted(_, _, _, _)
InsertSorted(sorted, a, field, direction) ==
    IF sorted = <<>> THEN <<a>>
    ELSE IF SortCompare(Head(sorted), a, field, direction) > 0
      THEN <<a>> \o sorted
    ELSE <<Head(sorted)>> \o InsertSorted(Tail(sorted), a, field, direction)

RECURSIVE sortApps(_, _, _)
sortApps(rows, field, direction) ==
    IF rows = <<>> THEN <<>>
    ELSE InsertSorted(sortApps(SubSeq(rows, 1, Len(rows) - 1), field, direction),
                      rows[Len(rows)], field, direction)

\* AppListView: apps defaults to [] while loading; processedApps.
processedApps(data, search, filterView, field, direction) ==
    sortApps(filterApps(IF data = None THEN <<>> ELSE data[1], search, filterView),
             field, direction)

BundleIds(rows) == [i \in 1..Len(rows) |-> rows[i].bundleId]

\* Mutant of handleUpdateAll: the ignored apps are not left out.
handleUpdateAll_KeepsIgnored(data) ==
    LET ids == BundleIds(IF data = None THEN <<>>
                         ELSE SelectSeq(data[1], LAMBDA a : a.hasUpdate))
    IN  IF Len(ids) > 0 THEN Some(ids) ELSE None

\* handleUpdateAll of UpdatesOverview, given the apps data: the ids handed to
\* executeBulk.mutate, or None when nothing is invoked.
handleUpdateAll(data) ==
    LET ids == BundleIds(OverviewUpdatableApps(data))
    IN  IF Len(ids) > 0 THEN Some(ids) ELSE None

\* handleUpdateAll of AppListView, given processedApps.
AppListView_handleUpdateAll(processed) ==
    LET updatable == BundleIds(SelectSeq(processed, Updatable))
    IN  IF Len(updatable) > 0 THEN Some(updatable) ELSE None

AppsInit ==
    /\ catalog \in [Bundles -> [hasUpdate : BOOLEAN, isIgnored : BOOLEAN]]
    /\ windowMode \in {"desktop", "panel"}
    /\ apps = None
    /\ updateCount = 0
    /\ bulkPending = FALSE
    /\ lastPress = None

\* The desktop window's get_all_apps answers (first fetch or refetch): the
\* data changes, DesktopApp renders and recomputes its memoized count.
DesktopAppsResolve ==
    /\ windowMode = "desktop"
    /\ apps' = Some(GetAllApps(catalog))
    /\ updateCount' = DesktopUpdateCount(apps')
    /\ UNCHANGED <<catalog, windowMode, bulkPending, lastPress>>
    /\ AppsFrame

\* The menu-bar window's get_all_apps answers; MenuBarApp renders.
PanelAppsResolve ==
    /\ windowMode = "panel"
    /\ apps' = Some(GetAllApps(catalog))
    /\ UNCHANGED <<catalog, windowMode, updateCount, bulkPending, lastPress>>
    /\ AppsFrame

\* The engine puts or removes the update candidate of an app (a check).
CandidateChanges(b) ==
    /\ catalog' = [catalog EXCEPT ![b].hasUpdate = ~@]
    /\ UNCHANGED <<windowMode, apps, updateCount, bulkPending, lastPress>>
    /\ AppsFrame

\* set_app_ignored(b, ignored) is served by the engine.
SetAppIgnored(b) ==
    /\ \E ignored \in BOOLEAN : catalog' = [catalog EXCEPT ![b].isIgnored = ignored]
    /\ UNCHANGED <<windowMode, apps, updateCount, bulkPending, lastPress>>
    /\ AppsFrame

\* "Update All" of the Updates view: rendered when updateCount > 0, disabled
\* while executeBulk is pending.
PressUpdateAllOverview ==
    /\ windowMode = "desktop"
    /\ OverviewUpdateCount(apps) > 0
    /\ ~bulkPending
    /\ LET invoked == handleUpdateAll(apps)
       IN  /\ lastPress' = Some([view |-> "overview", listed |-> apps[1], invoked |-> invoked])
           /\ bulkPending' = (invoked # None)
    /\ UNCHANGED <<catalog, windowMode, apps, updateCount>>
    /\ AppsFrame

\* "Update All" of the bulk action bar of the app list: shown while some rows
\* are selected, in every filter view but "ignored".
PressUpdateAllList ==
    /\ windowMode = "desktop"
    /\ \E search \in Searches, filterView \in FilterViews \ {"ignored"},
          field \in SortFields, direction \in SortDirections :
          LET processed == processedApps(apps, search, filterView, field, direction)
          IN  lastPress' = Some([view |-> filterView, listed |-> processed,
                                 invoked |-> AppListView_handleUpdateAll(processed)])
    /\ UNCHANGED <<catalog, windowMode, apps, updateCount, bulkPending>>
    /\ AppsFrame

\* execute_bulk_update of the Updates view answers.
BulkUpdateSettles ==
    /\ bulkPending
    /\ bulkPending' = FALSE
    /\ UNCHANGED <<catalog, windowMode, apps, updateCount, lastPress>>
    /\ AppsFrame

AppsNext ==
    \/ DesktopAppsResolve
    \/ PanelAppsResolve
    \/ \E b \in Bundles : CandidateChanges(b)
    \/ \E b \in Bundles : SetAppIgnored(b)
    \/ PressUpdateAllOverview
    \/ PressUpdateAllList
    \/ BulkUpdateSettles

\* The number of apps of a window's list with has_update and not is_ignored.
CountUpdatable(data) ==
    IF data = None THEN 0
    ELSE Cardinality({ i \in 1..Len(data[1]) : data[1][i].hasUpdate /\ ~data[1][i].isIgnored })

(***************************************************************************)
(*                 THE PERCENT SHOWN FOR A PROGRESS ENTRY                  *)
(***************************************************************************)
\* The bundle whose card and row are rendered.
ShownBundle == "com.a"

\* update-execute-progress payloads (without the bundle id): the byte counts
\* are null or a number.
PercentPayloads ==
    [phase : {"Downloading", "Installing"}, percent : {0, 10, 100},
     downloadedBytes : {None, Some(0), Some(50), Some(200)},
     totalBytes : {None, Some(0), Some(200)}]

\* A number as a fraction: JavaScript's division is not rounded to an integer.
Frac(n, d) == [num |-> n, den |-> d]
FracEq(x, y) == x.num * y.den = y.num * x.den

\* Mutant of UpdateCard_effectivePercent: the bytes are used whenever the total
\* is known, also before the first byte has arrived.
UpdateCard_effectivePercent_NoRealBytes(prog, bundleId) ==
    LET entry == IF bundleId \in DOMAIN prog THEN Some(prog[bundleId]) ELSE None
        downloadedBytes ==
            IF entry = None \/ entry[1].downloadedBytes = None
              THEN 0 ELSE entry[1].downloadedBytes[1]
        totalBytes == IF entry = None THEN None ELSE entry[1].totalBytes
    IN  IF totalBytes # None /\ totalBytes[1] > 0
          THEN Frac(downloadedBytes * 100, totalBytes[1])
          ELSE Frac(IF entry = None THEN 0 ELSE entry[1].percent, 1)

\* UpdateCard: effectivePercent of the card of bundleId, from the store.
UpdateCard_effectivePercent(prog, bundleId) ==
    LET entry == IF bundleId \in DOMAIN prog THEN Some(prog[bundleId]) ELSE None
        downloadedBytes ==
            IF entry = None \/ entry[1].downloadedBytes = None
              THEN 0 ELSE entry[1].downloadedBytes[1]
        totalBytes == IF entry = None THEN None ELSE entry[1].totalBytes
        hasRealBytes == downloadedBytes > 0
    IN  IF hasRealBytes /\ totalBytes # None /\ totalBytes[1] > 0
          THEN Frac(downloadedBytes * 100, totalBytes[1])
          ELSE Frac(IF entry = None THEN 0 ELSE entry[1].percent, 1)

\* InlineUpdateProgress: effectivePercent from its props.
InlineUpdateProgress_effectivePercent(percent, downloadedBytes, totalBytes) ==
    LET hasRealBytes == downloadedBytes # None /\ downloadedBytes[1] > 0
    IN  IF hasRealBytes /\ totalBytes # None /\ totalBytes[1] > 0
          THEN Frac(downloadedBytes[1] * 100, totalBytes[1])
          ELSE Frac(percent, 1)

PercentInit ==
    /\ pcProgress = <<>>
    /\ pcCard = None
    /\ pcInline = None

PercentIdle == PercentInit

\* An update-execute-progress event of the bundle is handled: the store
\* changes, the card and the row are not rendered yet.
PercentProgressEvent ==
    /\ \E payload \in PercentPayloads :
          pcProgress' = handleProgress(pcProgress, ShownBundle, payload)
    /\ pcCard' = None
    /\ pcInline' = None
    /\ PercentFrame

\* UpdateCard and AppRow render the bundle's progress entry; AppRow hands the
\* entry's fields to InlineUpdateProgress.
RenderProgress ==
    /\ ShownBundle \in DOMAIN pcProgress
    /\ pcCard = None
    /\ pcCard' = Some(UpdateCard_effectivePercent(pcProgress, ShownBundle))
    /\ pcInline' = Some(InlineUpdateProgress_effectivePercent(
                            pcProgress[ShownBundle].percent,
                            pcProgress[ShownBundle].downloadedBytes,
                            pcProgress[ShownBundle].totalBytes))
    /\ UNCHANGED pcProgress
    /\ PercentFrame

PercentNext == PercentProgressEvent \/ RenderProgress

(***************************************************************************)
(*                          SELF-UPDATE BANNER                             *)
(***************************************************************************)
MaxSelfUpdates == 2

\* SelfUpdateInfo, as far as the banner reads it: the download URL or null.
SelfUpdateInfos == [downloadUrl : {NULL, "https://macplus/macPlus.dmg"}]

\* self-update-progress payloads.
SelfUpdateProgressPayloads ==
    { [phase |-> "Downloading", percent |-> 10], [phase |-> "Installing", percent |-> 60] }

\* The message a failed execute_self_update is rejected with.
SelfUpdateErrors == {"download failed"}

\* The useState values of a freshly mounted banner.
BannerMounted ==
    [info |-> None, dismissed |-> FALSE, isUpdating |-> FALSE, progress |-> None,
     error |-> NULL, updateComplete |-> FALSE, isRelaunching |-> FALSE]

\* What the banner renders, in the order of its early returns.
BannerView(b) ==
    IF b.dismissed \/ b.info = None THEN "hidden"
    ELSE IF Truthy(b.error) THEN "error"
    ELSE IF b.updateComplete THEN "complete"
    ELSE IF b.isUpdating THEN "updating"
    ELSE "available"

\* "Restart Now" is rendered in the complete view unless a relaunch is under way.
RestartNowOffered(b) == BannerView(b) = "complete" /\ ~b.isRelaunching

\* Mutant of onSelfUpdateComplete: the success flag of the payload is not read.
onSelfUpdateComplete_AnyOutcome(b, payload) == [b EXCEPT !.updateComplete = TRUE]

\* The self-update-complete listener.
onSelfUpdateComplete(b, payload) ==
    IF payload.success THEN [b EXCEPT !.updateComplete = TRUE] ELSE b

\* The self-update-progress listener.
onSelfUpdateProgress(b, payload) == [b EXCEPT !.progress = Some(payload)]

\* The self-update-available listener.
onSelfUpdateAvailable(b, info) == [b EXCEPT !.info = Some(info), !.dismissed = FALSE]

\* handleUpdate: with no download URL the release page is opened and nothing
\* else happens; otherwise the banner turns to updating and execute_self_update
\* is invoked. Gives the banner and whether the command is invoked.
SelfUpdateBanner_handleUpdate(b) ==
    IF ~Truthy(b.info[1].downloadUrl)
      THEN [banner |-> b, invoke |-> FALSE]
      ELSE [banner |-> [b EXCEPT !.isUpdating = TRUE, !.error = NULL, !.progress = None],
            invoke |-> TRUE]

\* handleRetry: setError(null), then handleUpdate().
SelfUpdateBanner_handleRetry(b) == SelfUpdateBanner_handleUpdate([b EXCEPT !.error = NULL])

\* Mutant of onExecuteSelfUpdateRejected: the rejection is dropped.
onExecuteSelfUpdateRejected_Swallowed(b, err) == b

\* The catch of executeSelfUpdate(...) in handleUpdate.
onExecuteSelfUpdateRejected(b, err) == [b EXCEPT !.isUpdating = FALSE, !.error = err]

\* handleRelaunch: setIsRelaunching(true), relaunch_self is invoked.
SelfUpdateBanner_handleRelaunch(b) == [b EXCEPT !.isRelaunching = TRUE]

SelfInit ==
    /\ banner = BannerMounted
    /\ suCheck = "pending"
    /\ suExec = "idle"
    /\ suStarted = 0
    /\ suEvents = <<>>
    /\ suResponse = None
    /\ suRelaunch = "none"
    /\ suSuccessSeen = FALSE

SelfIdle ==
    /\ banner = BannerMounted
    /\ suCheck = "done"
    /\ suExec = "idle"
    /\ suStarted = 0
    /\ suEvents = <<>>
    /\ suResponse = None
    /\ suRelaunch = "none"
    /\ suSuccessSeen = FALSE

\* The window lives until relaunch_self has restarted the process.
BannerAlive == suRelaunch # "done"

\* check_self_update of the mount effect answers: an update, none, or an
\* error (which the effect's catch drops).
CheckSelfUpdateResolves ==
    /\ BannerAlive
    /\ suCheck = "pending"
    /\ suCheck' = "done"
    /\ \E result \in {None} \cup { Some(i) : i \in SelfUpdateInfos } :
          banner' = IF result # None THEN [banner EXCEPT !.info = result] ELSE banner
    /\ UNCHANGED <<suExec, suStarted, suEvents, suResponse, suRelaunch, suSuccessSeen>>
    /\ SelfFrame

\* A self-update-available event is handled.
SelfUpdateAvailableEvent ==
    /\ BannerAlive
    /\ \E info \in SelfUpdateInfos : banner' = onSelfUpdateAvailable(banner, info)
    /\ UNCHANGED <<suCheck, suExec, suStarted, suEvents, suResponse, suRelaunch, suSuccessSeen>>
    /\ SelfFrame

\* The banner after handleUpdate or handleRetry, and the command they invoke.
StartSelfUpdate(after) ==
    /\ after.invoke => suStarted < MaxSelfUpdates
    /\ banner' = after.banner
    /\ suExec' = IF after.invoke THEN "running" ELSE suExec
    /\ suStarted' = IF after.invoke THEN suStarted + 1 ELSE suStarted
    /\ UNCHANGED <<suCheck, suEvents, suResponse, suRelaunch, suSuccessSeen>>
    /\ SelfFrame

\* The user presses "Update" / "Download" in the available view.
PressSelfUpdate ==
    /\ BannerAlive
    /\ BannerView(banner) = "available"
    /\ StartSelfUpdate(SelfUpdateBanner_handleUpdate(banner))

\* The user presses "Retry" in the error view.
PressSelfUpdateRetry ==
    /\ BannerAlive
    /\ BannerView(banner) = "error"
    /\ StartSelfUpdate(SelfUpdateBanner_handleRetry(banner))

\* The user presses the dismiss button of the available view or of the error view.
PressSelfUpdateDismiss ==
    /\ BannerAlive
    /\ \/ /\ BannerView(banner) = "available"
          /\ banner' = [banner EXCEPT !.dismissed = TRUE]
       \/ /\ BannerView(banner) = "error"
          /\ banner' = [banner EXCEPT !.error = NULL, !.dismissed = TRUE]
    /\ UNCHANGED <<suCheck, suExec, suStarted, suEvents, suResponse, suRelaunch, suSuccessSeen>>
    /\ SelfFrame

\* The engine publishes a self-update-progress event of the running execution.
SelfUpdateEmitsProgress ==
    /\ suExec = "running"
    /\ suExec' = "progressed"
    /\ \E payload \in SelfUpdateProgressPayloads :
          suEvents' = Append(suEvents, [type |-> "progress", payload |-> payload])
    /\ UNCHANGED <<banner, suCheck, suStarted, suResponse, suRelaunch, suSuccessSeen>>
    /\ SelfFrame

\* The execution ends: the engine publishes self-update-complete and answers
\* the command, with an error when it failed.
SelfUpdateEnds ==
    /\ suExec \in {"running", "progressed"}
    /\ suExec' = "idle"
    /\ \E ok \in BOOLEAN : \E err \in SelfUpdateErrors :
          /\ suEvents' = Append(suEvents, [type |-> "complete", payload |-> [success |-> ok]])
          /\ suResponse' = Some(IF ok THEN [ok |-> TRUE, err |-> NULL]
                                      ELSE [ok |-> FALSE, err |-> err])
    /\ UNCHANGED <<banner, suCheck, suStarted, suRelaunch, suSuccessSeen>>
    /\ SelfFrame

\* The oldest event in flight reaches its listener.
SelfUpdateEventHandled ==
    /\ BannerAlive
    /\ suEvents # <<>>
    /\ suEvents' = Tail(suEvents)
    /\ LET e == Head(suEvents)
       IN  IF e.type = "progress"
             THEN /\ banner' = onSelfUpdateProgress(banner, e.payload)
                  /\ UNCHANGED suSuccessSeen
             ELSE /\ banner' = onSelfUpdateComplete(banner, e.payload)
                  /\ suSuccessSeen' = (suSuccessSeen \/ e.payload.success)
    /\ UNCHANGED <<suCheck, suExec, suStarted, suResponse, suRelaunch>>
    /\ SelfFrame

\* The answer of execute_self_update reaches the promise: the catch runs on a
\* rejection, nothing runs on a fulfilment.
ExecuteSelfUpdateSettles ==
    /\ BannerAlive
    /\ suResponse # None
    /\ suResponse' = None
    /\ banner' = IF suResponse[1].ok THEN banner
                  ELSE onExecuteSelfUpdateRejected(banner, suResponse[1].err)
    /\ UNCHANGED <<suCheck, suExec, suStarted, suEvents, suRelaunch, suSuccessSeen>>
    /\ SelfFrame

\* The user presses "Restart Now".
PressRestartNow ==
    /\ BannerAlive
    /\ RestartNowOffered(banner)
    /\ banner' = SelfUpdateBanner_handleRelaunch(banner)
    /\ suRelaunch' = "sent"
    /\ UNCHANGED <<suCheck, suExec, suStarted, suEvents, suResponse, suSuccessSeen>>
    /\ SelfFrame

\* relaunch_self is rejected: the catch of handleRelaunch runs.
RelaunchSelfRejected ==
    /\ suRelaunch = "sent"
    /\ suRelaunch' = "none"
    /\ banner' = [banner EXCEPT !.isRelaunching = FALSE]
    /\ UNCHANGED <<suCheck, suExec, suStarted, suEvents, suResponse, suSuccessSeen>>
    /\ SelfFrame

\* relaunch_self restarts the process.
RelaunchSelfDone ==
    /\ suRelaunch = "sent"
    /\ suRelaunch' = "done"
    /\ UNCHANGED <<banner, suCheck, suExec, suStarted, suEvents, suResponse, suSuccessSeen>>
    /\ SelfFrame

SelfNext ==
    \/ CheckSelfUpdateResolves
    \/ SelfUpdateAvailableEvent
    \/ PressSelfUpdate
    \/ PressSelfUpdateRetry
    \/ PressSelfUpdateDismiss
    \/ SelfUpdateEmitsProgress
    \/ SelfUpdateEnds
    \/ SelfUpdateEventHandled
    \/ ExecuteSelfUpdateSettles
    \/ PressRestartNow
    \/ RelaunchSelfRejected
    \/ RelaunchSelfDone

(***************************************************************************)
(*                           UNINSTALL DIALOG                              *)
(***************************************************************************)
\* A path is the sequence of its components: "/System/Applications/Mail.app"
\* is <<"System", "Applications", "Mail.app">>.
SystemApplicationsDir == <<"System", "Applications">>
SystemLibraryDir == <<"System", "Library">>

\* The apps the views can offer for uninstalling (bundleId and appPath of the
\* app summary or detail the button belongs to).
UninstallableApps ==
    { [bundleId |-> "com.macplus.app", appPath |-> <<"Applications", "macPlus.app">>],
      [bundleId |-> "com.apple.mail", appPath |-> <<"System", "Applications", "Mail.app">>],
      [bundleId |-> "com.apple.finder",
       appPath |-> <<"System", "Library", "CoreServices", "Finder.app">>],
      [bundleId |-> "com.a", appPath |-> <<"Applications", "A.app">>],
      [bundleId |-> "com.b", appPath |-> <<"Users", "me", "System", "Applications", "B.app">>] }

\* path.startsWith(dir + "/"), dir given by its components: the slash that
\* ends the prefix makes the prefix end at a component boundary.
startsWith(path, dir) ==
    /\ Len(path) > Len(dir)
    /\ SubSeq(path, 1, Len(dir)) = dir

isSystemApp(target) ==
    IF target = None THEN FALSE
    ELSE \/ startsWith(target[1].appPath, SystemApplicationsDir)
         \/ startsWith(target[1].appPath, SystemLibraryDir)

isSelf(target) == target # None /\ target[1].bundleId = "com.macplus.app"

\* Mutant of isProtected: only the app itself is protected.
isProtected_SelfOnly(target) == isSelf(target)

isProtected(target) == isSystemApp(target) \/ isSelf(target)

\* "Move to Trash" is rendered for an unprotected target and disabled while
\* the mutation is pending.
MoveToTrashEnabled == uninstallTarget # None /\ ~isProtected(uninstallTarget) /\ unPending = None

\* The checkbox "Also remove associated data" is rendered.
CleanupCheckboxShown ==
    /\ uninstallTarget # None /\ ~isProtected(uninstallTarget)
    /\ ~loadingFiles /\ associatedFiles # None /\ associatedFiles[1] > 0

UninstallInit ==
    /\ uninstallTarget = None
    /\ associatedFiles = None
    /\ loadingFiles = FALSE
    /\ cleanupChecked = FALSE
    /\ filesExpanded = FALSE
    /\ unScans = {}
    /\ unPending = None
    /\ unInvoked = {}

UninstallIdle == UninstallInit

\* The effect on [target]: a closed dialog forgets its files and its choices,
\* an opened one starts scanning.
TargetEffect(target, checked, expanded) ==
    IF target = None
      THEN /\ associatedFiles' = None
           /\ cleanupChecked' = FALSE
           /\ filesExpanded' = FALSE
           /\ UNCHANGED <<loadingFiles, unScans>>
      ELSE /\ loadingFiles' = TRUE
           /\ unScans' = unScans \cup {target[1].bundleId}
           /\ cleanupChecked' = checked
           /\ filesExpanded' = expanded
           /\ UNCHANGED associatedFiles

\* setUninstallTarget followed by the effect it triggers.
setUninstallTarget(target) ==
    /\ uninstallTarget' = target
    /\ IF target = None /\ uninstallTarget = None
         THEN UNCHANGED <<associatedFiles, loadingFiles, cleanupChecked, filesExpanded, unScans>>
         ELSE TargetEffect(target, cleanupChecked, filesExpanded)

\* The user presses the uninstall button of an app (overview card or detail view).
PressUninstall ==
    /\ \E app \in UninstallableApps : setUninstallTarget(Some(app))
    /\ UNCHANGED <<unPending, unInvoked>>
    /\ UninstallFrame

\* handleClose: "Cancel" or a click on the backdrop.
handleClose ==
    /\ uninstallTarget # None
    /\ setUninstallTarget(None)
    /\ UNCHANGED <<unPending, unInvoked>>
    /\ UninstallFrame

\* scan_associated_files answers (with files, with none, or with an error).
ScanSettles ==
    /\ \E b \in unScans : \E found \in {None, Some(0), Some(2)} :
          /\ unScans' = unScans \ {b}
          /\ associatedFiles' = found
    /\ loadingFiles' = FALSE
    /\ UNCHANGED <<uninstallTarget, cleanupChecked, filesExpanded, unPending, unInvoked>>
    /\ UninstallFrame

\* The user ticks or unticks "Also remove associated data".
ToggleCleanup ==
    /\ CleanupCheckboxShown
    /\ cleanupChecked' = ~cleanupChecked
    /\ UNCHANGED <<uninstallTarget, associatedFiles, loadingFiles, filesExpanded,
                   unScans, unPending, unInvoked>>
    /\ UninstallFrame

\* The user folds or unfolds the list of associated files.
ToggleFilesExpanded ==
    /\ CleanupCheckboxShown /\ cleanupChecked
    /\ filesExpanded' = ~filesExpanded
    /\ UNCHANGED <<uninstallTarget, associatedFiles, loadingFiles, cleanupChecked,
                   unScans, unPending, unInvoked>>
    /\ UninstallFrame

\* The user presses "Move to Trash": handleUninstall returns early without a
\* target or for a protected one, else it invokes uninstall_app.
handleUninstall ==
    /\ MoveToTrashEnabled
    /\ IF uninstallTarget = None \/ isProtected(uninstallTarget)
         THEN UNCHANGED <<unPending, unInvoked>>
         ELSE LET call == [bundleId |-> uninstallTarget[1].bundleId,
                           cleanupAssociated |-> cleanupChecked]
              IN  /\ unPending' = Some(call)
                  /\ unInvoked' = unInvoked \cup {call}
    /\ UNCHANGED <<uninstallTarget, associatedFiles, loadingFiles, cleanupChecked,
                   filesExpanded, unScans>>
    /\ UninstallFrame

\* uninstall_app answers: a result (successful or not) runs onSuccess, which
\* closes the dialog; an error only raises a toast.
UninstallSettles ==
    /\ unPending # None
    /\ unPending' = None
    /\ \E resolved \in BOOLEAN :
          IF resolved
            THEN setUninstallTarget(None)
            ELSE UNCHANGED <<uninstallTarget, associatedFiles, loadingFiles,
                             cleanupChecked, filesExpanded, unScans>>
    /\ UNCHANGED unInvoked
    /\ UninstallFrame

UninstallNext ==
    \/ PressUninstall
    \/ handleClose
    \/ ScanSettles
    \/ ToggleCleanup
    \/ ToggleFilesExpanded
    \/ handleUninstall
    \/ UninstallSettles

(***************************************************************************)
(*                 THE CONTROLS THAT START AN EXECUTION                    *)
(***************************************************************************)
MaxCommands == 3

\* The controls of the GUI that issue execute_update or execute_bulk_update.
LaunchOrigins == {"row", "card", "overviewAll", "listBulk", "panel"}

\* A command of an origin for a set of bundles, numbered in order of issue.
LaunchCall(origin, ids) == [id |-> lnIssued + 1, origin |-> origin, ids |-> ids]

\* The bundles some command in flight includes.
InFlightBundles(calls) == UNION { c.ids : c \in calls }

\* mutation.isPending of the hook instance of a control: a command it issued
\* has not settled.
IsPending(calls, origin, ids) ==
    \E c \in calls : c.origin = origin /\ c.ids = ids

\* AppRow / UpdateCard render the "Update" button of an app with an update
\* when the bundle has neither a relaunch-needed nor a progress entry.
UpdateButtonShown(b) == b \notin lnRelaunch /\ b \notin lnProgress

\* AppRow: the button is disabled while the row's executeUpdate is pending.
AppRowUpdateEnabled(b) == UpdateButtonShown(b) /\ ~IsPending(lnCalls, "row", {b})

\* UpdateCard: the button carries no disabled attribute.
UpdateCardEnabled(b) == UpdateButtonShown(b)

\* UpdatesOverview: "Update All" is disabled while executeBulk is pending or
\* the store holds any progress entry.
OverviewUpdateAllEnabled ==
    /\ ~(\E c \in lnCalls : c.origin = "overviewAll")
    /\ lnProgress = {}

LaunchInit ==
    /\ lnProgress = {}
    /\ lnRelaunch = {}
    /\ lnTimers = {}
    /\ lnCalls = {}
    /\ lnIssued = 0

LaunchIdle == LaunchInit

\* A control invokes its command.
Issue(origin, ids) ==
    /\ lnIssued < MaxCommands
    /\ lnCalls' = lnCalls \cup {LaunchCall(origin, ids)}
    /\ lnIssued' = lnIssued + 1
    /\ UNCHANGED <<lnProgress, lnRelaunch, lnTimers>>
    /\ LaunchFrame

\* AppRow.handleUpdate: executeUpdate.mutate(app.bundleId).
PressUpdateRow(b) == AppRowUpdateEnabled(b) /\ Issue("row", {b})

\* UpdatesOverview.handleUpdateSingle, from the button of an UpdateCard.
PressUpdateCard(b) == UpdateCardEnabled(b) /\ Issue("card", {b})

\* UpdatesOverview.handleUpdateAll: every updatable app is included.
PressOverviewUpdateAll == OverviewUpdateAllEnabled /\ Issue("overviewAll", Bundles)

\* AppListView.handleUpdateSelected / handleUpdateAll of the bulk action bar:
\* the selected updatable apps, or all of them.
PressListBulk == \E ids \in SUBSET Bundles \ {{}} : Issue("listBulk", ids)

\* MenuBarApp: onUpdate of a row of the menu-bar panel, whose window has no
\* progress listener.
PressUpdatePanel(b) == Issue("panel", {b})

\* An update-execute-progress event of a bundle under execution is handled.
LaunchProgressEvent(b) ==
    /\ b \in InFlightBundles(lnCalls)
    /\ lnProgress' = lnProgress \cup {b}
    /\ UNCHANGED <<lnRelaunch, lnTimers, lnCalls, lnIssued>>
    /\ LaunchFrame

\* The update-execute-complete event of a bundle under execution is handled:
\* the bundle moves to relaunch-needed, or a delayed clear is scheduled.
LaunchCompleteEvent(b) ==
    /\ b \in InFlightBundles(lnCalls)
    /\ \E relaunchBranch \in BOOLEAN :
          IF relaunchBranch
            THEN /\ lnProgress' = lnProgress \ {b}
                 /\ lnRelaunch' = lnRelaunch \cup {b}
                 /\ UNCHANGED lnTimers
            ELSE /\ lnTimers' = lnTimers \cup {b}
                 /\ UNCHANGED <<lnProgress, lnRelaunch>>
    /\ UNCHANGED <<lnCalls, lnIssued>>
    /\ LaunchFrame

\* A delayed clearProgress fires.
LaunchClearTimerFires(b) ==
    /\ b \in lnTimers
    /\ lnTimers' = lnTimers \ {b}
    /\ lnProgress' = lnProgress \ {b}
    /\ UNCHANGED <<lnRelaunch, lnCalls, lnIssued>>
    /\ LaunchFrame

\* The relaunch button of a bundle is pressed and relaunch_app has settled.
LaunchRelaunchDone(b) ==
    /\ b \in lnRelaunch
    /\ lnRelaunch' = lnRelaunch \ {b}
    /\ UNCHANGED <<lnProgress, lnTimers, lnCalls, lnIssued>>
    /\ LaunchFrame

\* A command returns.
LaunchCallReturns ==
    /\ \E c \in lnCalls : lnCalls' = lnCalls \ {c}
    /\ UNCHANGED <<lnProgress, lnRelaunch, lnTimers, lnIssued>>
    /\ LaunchFrame

LaunchNext ==
    \/ \E b \in Bundles : PressUpdateRow(b)
    \/ \E b \in Bundles : PressUpdateCard(b)
    \/ PressOverviewUpdateAll
    \/ PressListBulk
    \/ \E b \in Bundles : PressUpdatePanel(b)
    \/ \E b \in Bundles : LaunchProgressEvent(b)
    \/ \E b \in Bundles : LaunchCompleteEvent(b)
    \/ \E b \in Bundles : LaunchClearTimerFires(b)
    \/ \E b \in Bundles : LaunchRelaunchDone(b)
    \/ LaunchCallReturns

(***************************************************************************)
(*                    THE CRAWLING DISPLAY PERCENT                         *)
(***************************************************************************)
MaxTicks == 2

\* Percents are kept in thousandths, so that the 1.5 % steps of the crawl
\* are integers (rounded down).
Milli == 1000

\* The phases the engine reports; the hook looks for "administrator" and
\* "waiting" in the lower-cased phase.
CrawlPhases == {"Downloading", "Waiting for administrator password"}
IsWaitingPhase(phase) == phase = "Waiting for administrator password"

\* The progress entries the bar is rendered with.
CrawlPayloads ==
    [phase : CrawlPhases, percent : {0, 10, 11, 100},
     downloadedBytes : {None, Some(0), Some(50), Some(200)},
     totalBytes : {None, Some(200)}]

\* An absent count and a count of zero are the same for the order of events.
BytesOf(count) == IF count = None THEN 0 ELSE count[1]

\* The engine reports non-decreasing percents and byte counts within an execution.
NonDecreasing(before, after) ==
    /\ before.percent <= after.percent
    /\ BytesOf(before.downloadedBytes) <= BytesOf(after.downloadedBytes)
    /\ BytesOf(before.totalBytes) <= BytesOf(after.totalBytes)

CrawlHasRealBytes(p) == p.downloadedBytes # None /\ p.downloadedBytes[1] > 0

\* effectivePercent of InlineUpdateProgress / UpdateCard, in thousandths.
CrawlEffectivePercent(p) ==
    IF CrawlHasRealBytes(p) /\ p.totalBytes # None /\ p.totalBytes[1] > 0
      THEN (p.downloadedBytes[1] * 100 * Milli) \div p.totalBytes[1]
      ELSE p.percent * Milli

Min(a, b) == IF a < b THEN a ELSE b

\* The callback of the interval: one step of the crawl towards the ceiling.
CrawlStep(prev, percent) ==
    LET ceiling == Min(percent + 65 * Milli, 92 * Milli)
    IN  IF prev >= ceiling THEN prev
        ELSE prev + ((ceiling - prev) * 15) \div 1000

\* The first effect: a changed percent is remembered and displayed.
SnapEffect(display, last, percent) ==
    IF percent # last THEN [display |-> percent, last |-> percent]
    ELSE [display |-> display, last |-> last]

\* The second effect: whether it starts the interval, and what it displays.
CrawlEffect(display, percent, phase, hasRealBytes) ==
    IF hasRealBytes THEN [display |-> display, interval |-> FALSE]
    ELSE IF percent = 100 * Milli THEN [display |-> 100 * Milli, interval |-> FALSE]
    ELSE IF percent <= 0 THEN [display |-> display, interval |-> FALSE]
    ELSE IF IsWaitingPhase(phase) THEN [display |-> display, interval |-> FALSE]
    ELSE [display |-> display, interval |-> TRUE]

CrawlInit ==
    /\ cwProps = None
    /\ cwDisplay = 0
    /\ cwLast = 0
    /\ cwInterval = FALSE
    /\ cwTicks = 0

CrawlIdle == CrawlInit

\* The state of the hook after a render with the entry p and its effects.
CrawlRendered(display, last, p) ==
    LET percent == CrawlEffectivePercent(p)
        snapped == SnapEffect(display, last, percent)
        crawled == CrawlEffect(snapped.display, percent, p.phase, CrawlHasRealBytes(p))
    IN  /\ cwProps' = Some(p)
        /\ cwLast' = snapped.last
        /\ cwDisplay' = crawled.display
        /\ cwInterval' = crawled.interval

\* The first progress event of the execution: the bar is mounted, with
\* useState(percent) and useRef(percent).
CrawlMount ==
    /\ cwProps = None
    /\ \E p \in CrawlPayloads :
          CrawlRendered(CrawlEffectivePercent(p), CrawlEffectivePercent(p), p)
    /\ UNCHANGED cwTicks
    /\ CrawlFrame

\* A later progress event of the execution: the bar renders with the new entry.
CrawlProgressEvent ==
    /\ cwProps # None
    /\ \E p \in CrawlPayloads :
          /\ NonDecreasing(cwProps[1], p)
          /\ CrawlRendered(cwDisplay, cwLast, p)
    /\ UNCHANGED cwTicks
    /\ CrawlFrame

\* 600 ms have passed: the interval callback runs.
CrawlTick ==
    /\ cwInterval
    /\ cwTicks < MaxTicks
    /\ cwTicks' = cwTicks + 1
    /\ cwDisplay' = CrawlStep(cwDisplay, CrawlEffectivePercent(cwProps[1]))
    /\ UNCHANGED <<cwProps, cwLast, cwInterval>>
    /\ CrawlFrame

CrawlNext ==
    \/ CrawlMount
    \/ CrawlProgressEvent
    \/ CrawlTick

(***************************************************************************)
(*                               UI STORE                                  *)
(***************************************************************************)
MaxUiCalls == 3

\* The arguments selectApp accepts (bundleId: string | null).
SelectableIds == {NULL, "", "com.a", "com.b"}

\* The store's selection and sheet state as a record.
UiState(selected, open) == [selectedAppId |-> selected, detailOpen |-> open]

\* Mutant of selectApp: the sheet is opened whatever is selected.
selectApp_AlwaysOpens(ui, bundleId) == UiState(bundleId, TRUE)

\* selectApp: set({ selectedAppId: bundleId, detailOpen: !!bundleId }).
selectApp(ui, bundleId) == UiState(bundleId, Truthy(bundleId))

\* setDetailOpen: opening keeps the selection, closing clears it.
setDetailOpen(ui, open) ==
    IF open THEN UiState(ui.selectedAppId, TRUE) ELSE UiState(NULL, FALSE)

UiInit ==
    /\ selectedAppId = NULL
    /\ detailOpen = FALSE
    /\ commandPaletteOpen = FALSE
    /\ uiCalls = <<>>

UiIdle == UiInit

\* A call on the store is made and logged.
UiCall(name, arg) ==
    /\ Len(uiCalls) < MaxUiCalls
    /\ uiCalls' = Append(uiCalls, <<name, arg>>)

\* selectApp(bundleId) is called (a row, a card or the command palette).
SelectApp ==
    /\ \E bundleId \in SelectableIds :
          LET after == selectApp(UiState(selectedAppId, detailOpen), bundleId)
          IN  /\ UiCall("selectApp", bundleId)
              /\ selectedAppId' = after.selectedAppId
              /\ detailOpen' = after.detailOpen
    /\ UNCHANGED commandPaletteOpen
    /\ UiFrame

\* setDetailOpen(open) is called (the detail sheet closes with false).
SetDetailOpen(open) ==
    /\ LET after == setDetailOpen(UiState(selectedAppId, detailOpen), open)
       IN  /\ UiCall("setDetailOpen", IF open THEN "true" ELSE "false")
           /\ selectedAppId' = after.selectedAppId
           /\ detailOpen' = after.detailOpen
    /\ UNCHANGED commandPaletteOpen
    /\ UiFrame

\* setCommandPaletteOpen(open) is called.
SetCommandPaletteOpen ==
    /\ \E open \in BOOLEAN :
          /\ UiCall("setCommandPaletteOpen", IF open THEN "true" ELSE "false")
          /\ commandPaletteOpen' = open
    /\ UNCHANGED <<selectedAppId, detailOpen>>
    /\ UiFrame

UiNext ==
    \/ SelectApp
    \/ SetDetailOpen(TRUE)
    \/ SetDetailOpen(FALSE)
    \/ SetCommandPaletteOpen

(***************************************************************************)
(*                           RELAUNCH BUTTONS                              *)
(***************************************************************************)
MaxRelaunches == 2

RelaunchInit ==
    /\ rlNeeded = <<>>
    /\ rlRelaunching = [b \in Bundles |-> FALSE]
    /\ rlCalls = {}
    /\ rlIssued = 0
    /\ rlSettled = {}

RelaunchIdle == RelaunchInit

\* AppRow / UpdateCard render the RelaunchButton of a bundle that has a
\* relaunch-needed entry; the button is disabled while isRelaunching.
RelaunchButtonEnabled(b) == b \in DOMAIN rlNeeded /\ ~rlRelaunching[b]

\* A completion that needs a relaunch is handled: setRelaunchNeeded. A button
\* already mounted for the bundle stays mounted.
RelaunchBecomesNeeded(b) ==
    /\ rlNeeded' = setRelaunchNeeded(rlNeeded, b, "/Applications/A.app")
    /\ UNCHANGED <<rlRelaunching, rlCalls, rlIssued, rlSettled>>
    /\ RelaunchFrame

\* handleRelaunch up to its await: setIsRelaunching(true), relaunch_app invoked.
PressRelaunch(b) ==
    /\ RelaunchButtonEnabled(b)
    /\ rlIssued < MaxRelaunches
    /\ rlRelaunching' = [rlRelaunching EXCEPT ![b] = TRUE]
    /\ rlCalls' = rlCalls \cup {[id |-> rlIssued + 1, bundleId |-> b]}
    /\ rlIssued' = rlIssued + 1
    /\ UNCHANGED <<rlNeeded, rlSettled>>
    /\ RelaunchFrame

\* The row or card of the bundle is mounted anew (the filter view changes, the
\* virtualized list scrolls): its RelaunchButton starts with useState(false).
RelaunchButtonRemounts(b) ==
    /\ b \in DOMAIN rlNeeded
    /\ rlRelaunching[b]
    /\ rlRelaunching' = [rlRelaunching EXCEPT ![b] = FALSE]
    /\ UNCHANGED <<rlNeeded, rlCalls, rlIssued, rlSettled>>
    /\ RelaunchFrame

\* relaunch_app settles, fulfilled or rejected: the finally block runs
\* clearRelaunch, and the button of the bundle is no longer rendered.
RelaunchSettles ==
    /\ \E c \in rlCalls : \E ok \in BOOLEAN :
          /\ rlCalls' = rlCalls \ {c}
          /\ rlNeeded' = clearRelaunch(rlNeeded, c.bundleId)
          /\ rlRelaunching' = [rlRelaunching EXCEPT ![c.bundleId] = FALSE]
          /\ rlSettled' = rlSettled \cup {[id |-> c.id, bundleId |-> c.bundleId, ok |-> ok]}
    /\ UNCHANGED rlIssued
    /\ RelaunchFrame

RelaunchNext ==
    \/ \E b \in Bundles : RelaunchBecomesNeeded(b)
    \/ \E b \in Bundles : PressRelaunch(b)
    \/ \E b \in Bundles : RelaunchButtonRemounts(b)
    \/ RelaunchSettles

(***************************************************************************)
(*                           SPECIFICATIONS                                *)
(***************************************************************************)
RouteIdle ==
    /\ rApp = [hasUpdate |-> FALSE, updateSource |-> NULL, installSource |-> "direct",
               homebrewCaskToken |-> NULL, homebrewFormulaName |-> NULL]
    /\ rShown = None
    /\ rExec = "idle"
    /\ rExecutor = NULL
    /\ rComplete = None

VersionIdle ==
    /\ vCurrent = <<"0">>
    /\ vAvailable = <<"0">>
    /\ vNewer = None
    /\ vThird = <<"0">>
    /\ vOrder = None

StartupIdle ==
    /\ stCatalog = {}
    /\ stAutoCheck = FALSE
    /\ stLaunch = [catalog |-> {}, autoCheckOnLaunch |-> FALSE]
    /\ stSettings = None
    /\ stApps = None
    /\ stSettingsFetch = "idle"
    /\ stAppsFetch = "idle"
    /\ hasRunStartup = FALSE
    /\ fullScan = "idle"
    /\ checkUpdates = "idle"
    /\ stInvoked = <<>>
    /\ stToggles = 0

ProgressIdle == ProgressInit

SettingsIdle ==
    /\ persisted = DefaultSettings
    /\ seCache = None
    /\ seFetch = NoFetch
    /\ seMutations = [m \in 1..MaxUpdates |-> NoMutation]
    /\ seIssued = 0
    /\ seLastApplied = None
    /\ seHistory = NoHistory

AppsIdle ==
    /\ catalog = [b \in Bundles |-> [hasUpdate |-> FALSE, isIgnored |-> FALSE]]
    /\ windowMode = "desktop"
    /\ apps = None
    /\ updateCount = 0
    /\ bulkPending = FALSE
    /\ lastPress = None

InitRoute ==
    RouteInit /\ VersionIdle /\ StartupIdle /\ ProgressIdle /\ SettingsIdle /\ AppsIdle
    /\ PercentIdle
    /\ SelfIdle
    /\ UninstallIdle
    /\ LaunchIdle
    /\ CrawlIdle
    /\ UiIdle
    /\ RelaunchIdle

SpecRoute ==
    /\ InitRoute
    /\ [][RouteNext]_vars

InitVersion ==
    VersionInit /\ RouteIdle /\ StartupIdle /\ ProgressIdle /\ SettingsIdle /\ AppsIdle
    /\ PercentIdle
    /\ SelfIdle
    /\ UninstallIdle
    /\ LaunchIdle
    /\ CrawlIdle
    /\ UiIdle
    /\ RelaunchIdle

SpecVersion ==
    /\ InitVersion
    /\ [][VersionNext]_vars

InitVersionOrder ==
    VersionOrderInit /\ RouteIdle /\ StartupIdle /\ ProgressIdle /\ SettingsIdle /\ AppsIdle
    /\ PercentIdle
    /\ SelfIdle
    /\ UninstallIdle
    /\ LaunchIdle
    /\ CrawlIdle
    /\ UiIdle
    /\ RelaunchIdle

SpecVersionOrder ==
    /\ InitVersionOrder
    /\ [][VersionOrderNext]_vars

InitPercent ==
    /\ PercentInit /\ RouteIdle /\ VersionIdle /\ StartupIdle /\ ProgressIdle
    /\ SettingsIdle /\ AppsIdle
    /\ SelfIdle
    /\ UninstallIdle
    /\ LaunchIdle
    /\ CrawlIdle
    /\ UiIdle
    /\ RelaunchIdle

SpecPercent ==
    /\ InitPercent
    /\ [][PercentNext]_vars

InitLaunch ==
    /\ LaunchInit /\ RouteIdle /\ VersionIdle /\ StartupIdle /\ ProgressIdle
    /\ SettingsIdle /\ AppsIdle /\ PercentIdle /\ SelfIdle /\ UninstallIdle
    /\ CrawlIdle
    /\ UiIdle
    /\ RelaunchIdle

SpecLaunch ==
    /\ InitLaunch
    /\ [][LaunchNext]_vars

InitCrawl ==
    /\ CrawlInit /\ RouteIdle /\ VersionIdle /\ StartupIdle /\ ProgressIdle
    /\ SettingsIdle /\ AppsIdle /\ PercentIdle /\ SelfIdle /\ UninstallIdle
    /\ LaunchIdle
    /\ UiIdle
    /\ RelaunchIdle

SpecCrawl ==
    /\ InitCrawl
    /\ [][CrawlNext]_vars

InitUi ==
    /\ UiInit /\ RouteIdle /\ VersionIdle /\ StartupIdle /\ ProgressIdle
    /\ SettingsIdle /\ AppsIdle /\ PercentIdle /\ SelfIdle /\ UninstallIdle
    /\ LaunchIdle /\ CrawlIdle
    /\ RelaunchIdle

SpecUi ==
    /\ InitUi
    /\ [][UiNext]_vars

InitRelaunch ==
    /\ RelaunchInit /\ RouteIdle /\ VersionIdle /\ StartupIdle /\ ProgressIdle
    /\ SettingsIdle /\ AppsIdle /\ PercentIdle /\ SelfIdle /\ UninstallIdle
    /\ LaunchIdle /\ CrawlIdle /\ UiIdle

SpecRelaunch ==
    /\ InitRelaunch
    /\ [][RelaunchNext]_vars

InitUninstall ==
    /\ UninstallInit /\ RouteIdle /\ VersionIdle /\ StartupIdle /\ ProgressIdle
    /\ SettingsIdle /\ AppsIdle /\ PercentIdle /\ SelfIdle
    /\ LaunchIdle
    /\ CrawlIdle
    /\ UiIdle
    /\ RelaunchIdle

SpecUninstall ==
    /\ InitUninstall
    /\ [][UninstallNext]_vars

InitSelf ==
    /\ SelfInit /\ RouteIdle /\ VersionIdle /\ StartupIdle /\ ProgressIdle
    /\ SettingsIdle /\ AppsIdle /\ PercentIdle
    /\ UninstallIdle
    /\ LaunchIdle
    /\ CrawlIdle
    /\ UiIdle
    /\ RelaunchIdle

SpecSelf ==
    /\ InitSelf
    /\ [][SelfNext]_vars

\* The engine answers every command: the answer of execute_self_update in
\* flight reaches the banner.
FairSpecSelf ==
    /\ SpecSelf
    /\ WF_vars(ExecuteSelfUpdateSettles)

InitStartup ==
    StartupInit /\ RouteIdle /\ VersionIdle /\ ProgressIdle /\ SettingsIdle /\ AppsIdle
    /\ PercentIdle
    /\ SelfIdle
    /\ UninstallIdle
    /\ LaunchIdle
    /\ CrawlIdle
    /\ UiIdle
    /\ RelaunchIdle

SpecStartup ==
    /\ InitStartup
    /\ [][StartupNext]_vars

InitProgress ==
    ProgressInit /\ RouteIdle /\ VersionIdle /\ StartupIdle /\ SettingsIdle /\ AppsIdle
    /\ PercentIdle
    /\ SelfIdle
    /\ UninstallIdle
    /\ LaunchIdle
    /\ CrawlIdle
    /\ UiIdle
    /\ RelaunchIdle

SpecProgress ==
    /\ InitProgress
    /\ [][ProgressNext]_vars

InitSettings ==
    SettingsInit /\ RouteIdle /\ VersionIdle /\ StartupIdle /\ ProgressIdle /\ AppsIdle
    /\ PercentIdle
    /\ SelfIdle
    /\ UninstallIdle
    /\ LaunchIdle
    /\ CrawlIdle
    /\ UiIdle
    /\ RelaunchIdle

SpecSettings ==
    /\ InitSettings
    /\ [][SettingsNext]_vars

InitApps ==
    AppsInit /\ RouteIdle /\ VersionIdle /\ StartupIdle /\ ProgressIdle /\ SettingsIdle
    /\ PercentIdle
    /\ SelfIdle
    /\ UninstallIdle
    /\ LaunchIdle
    /\ CrawlIdle
    /\ UiIdle
    /\ RelaunchIdle

SpecApps ==
    /\ InitApps
    /\ [][AppsNext]_vars

\* A timer set with setTimeout fires once its delay has passed.
FairSpecProgress ==
    /\ SpecProgress
    /\ \A b \in Bundles : WF_vars(ClearTimerFires(b))

\* Every command is a single request with a single response, so a query or a
\* mutation in flight settles.
FairSpecStartup ==
    /\ SpecStartup
    /\ WF_vars(SettingsQueryResolves)
    /\ WF_vars(AppsQueryResolves)
    /\ WF_vars(FullScanSettles)
    /\ WF_vars(CheckUpdatesSettles)

(***************************************************************************)
(*                               CLAIMS                                    *)
(***************************************************************************)

\* C1: for every app with an available update, isDelegatedUpdate returns true
\* exactly when the two-phase routing selects the Delegated executor, and false
\* exactly when it selects Direct, Homebrew, HomebrewFormula or AppStore.
C1_MirrorsRouting ==
    rShown # None =>
        /\ rShown[1] = TRUE <=> RouteExecutor(rApp) = "Delegated"
        /\ rShown[1] = FALSE <=>
               RouteExecutor(rApp) \in {"Direct", "Homebrew", "HomebrewFormula", "AppStore"}

\* C1 witness: a github candidate of an app without a cask token, installed
\* directly, fell through phase 1 and was shown as delegated.
C1_Witness ==
    /\ rShown = Some(TRUE)
    /\ rApp.updateSource = "github"
    /\ rApp.homebrewCaskToken = NULL
    /\ rApp.installSource = "direct"

\* C3: the comparison reports "2.0" as newer than "2.0-rc.1" and never reports
\* "2.0-rc.1" as newer than "2.0" (a pre-release suffix ranks lower than the
\* same prefix without a suffix).
C3_PreReleaseRanksLower ==
    vNewer # None =>
        /\ (vCurrent = V_2_0_rc_1 /\ vAvailable = V_2_0) => vNewer[1] = TRUE
        /\ (vCurrent = V_2_0 /\ vAvailable = V_2_0_rc_1) => vNewer[1] = FALSE

\* C10: the update-execute-complete event that ends an execute_update of an app
\* carries delegated = true if and only if isDelegatedUpdate(app) returned true
\* before the execution.
C10_DelegatedAsPredicted ==
    (rComplete # None /\ rShown # None) =>
        (rComplete[1].delegated = TRUE <=> rShown[1] = TRUE)

\* C2: when the catalog is non-empty and auto_check_on_launch is false, startup
\* issues neither trigger_full_scan nor check_all_updates, in every order in
\* which the settings query and the apps query resolve.
C2_NoScanWhenDisabled ==
    (stLaunch.catalog # {} /\ ~stLaunch.autoCheckOnLaunch) => stInvoked = <<>>

\* C8: on launch with an empty catalog a scan is forced: the startup decision
\* issues trigger_full_scan even when auto_check_on_launch is false, and the
\* decision is taken once the settings have loaded.
C8_FirstRunScanForced ==
    /\ [](hasRunStartup /\ stLaunch.catalog = {} =>
            Len(stInvoked) > 0 /\ stInvoked[1] = "trigger_full_scan")
    /\ [](stLaunch.catalog = {} =>
            <>(Len(stInvoked) > 0 /\ stInvoked[1] = "trigger_full_scan"))

\* C8 witness: the startup has run on an empty catalog with the setting off,
\* and trigger_full_scan was invoked.
C8_Witness ==
    /\ hasRunStartup
    /\ stLaunch.catalog = {}
    /\ ~stLaunch.autoCheckOnLaunch
    /\ stToggles = 0
    /\ stInvoked # <<>>
    /\ stInvoked[1] = "trigger_full_scan"

\* C9: when auto_check_on_launch is enabled, startup issues trigger_full_scan
\* (and not only check_all_updates), also when the catalog is not empty.
C9_ScanWhenEnabled ==
    (hasRunStartup /\ stLaunch.autoCheckOnLaunch) =>
        \E i \in 1..Len(stInvoked) : stInvoked[i] = "trigger_full_scan"

\* C4: after the listener has handled update-execute-complete for a bundle, and
\* no later progress event for that bundle arrives, the bundle's progress entry
\* is eventually removed and the bundle is no longer shown as updating: at once
\* when the completion moves the bundle to relaunch-needed, otherwise when the
\* delayed clear fires.
C4_CompleteEndsExecution ==
    /\ \A b \in Bundles :
          [](lastEvent[b] = "complete" =>
                <>(~IsShownUpdating(b) \/ lastEvent[b] = "progress"))
    /\ [][\A b \in Bundles :
            /\ (lastEvent'[b] = "complete" /\ b \in exRunning
                  /\ RelaunchBranch(lastComplete'[b][1])) => b \notin DOMAIN progress'
            /\ timers'[b] < timers[b] => b \notin DOMAIN progress']_vars

\* C4 witness: a completion that needs no relaunch was handled while the bundle
\* had a progress entry's worth of events, its delayed clear has fired, and the
\* entry is gone.
C4_Witness ==
    \E b \in Bundles :
        /\ lastEvent[b] = "complete"
        /\ lastComplete[b] # None
        /\ ~RelaunchBranch(lastComplete[b][1])
        /\ exStarted[b] = 1
        /\ timers[b] = 0
        /\ b \notin DOMAIN progress

\* C5: after update_settings(x) has succeeded and all settings requests have
\* settled, the settings held by the GUI and the result of the next
\* get_settings (the settings row) equal x in every field.
C5_SettingsRoundTrip ==
    (SettingsSettled /\ seLastApplied # None) =>
        /\ seCache # None
        /\ \A f \in SettingsFields :
              /\ seCache[1][f] = seLastApplied[1][f]
              /\ persisted[f] = seLastApplied[1][f]

\* C5 witness: two updates were made, the later one changed the settings row,
\* and everything has settled.
C5_Witness ==
    /\ SettingsSettled
    /\ seIssued = 2
    /\ seLastApplied # None
    /\ seLastApplied[1] # DefaultSettings
    /\ seCache = seLastApplied

\* C6: in every state, the update count shown by the desktop window, the
\* menu-bar panel and the Updates view equals the number of apps (of the list
\* the window holds) with has_update = true and is_ignored = false.
C6_CountsExcludeIgnored ==
    /\ windowMode = "desktop" =>
          /\ updateCount = CountUpdatable(apps)
          /\ OverviewUpdateCount(apps) = CountUpdatable(apps)
    /\ windowMode = "panel" => MenuBarUpdateCount(apps) = CountUpdatable(apps)

\* C6 witness: the desktop window holds a list with an ignored app that has an
\* update and one counted app.
C6_Witness ==
    /\ windowMode = "desktop"
    /\ apps # None
    /\ \E i \in 1..Len(apps[1]) : apps[1][i].hasUpdate /\ apps[1][i].isIgnored
    /\ updateCount = 1

\* C7: the bundle list "Update All" passes to execute_bulk_update consists
\* exactly of the listed apps with has_update = true and is_ignored = false
\* (each once, none ignored), and no command is issued when that list is empty.
C7_UpdateAllSkipsIgnored ==
    lastPress # None =>
        LET p == lastPress[1]
            wanted == { i \in 1..Len(p.listed) :
                          p.listed[i].hasUpdate /\ ~p.listed[i].isIgnored }
        IN  IF wanted = {}
              THEN p.invoked = None
              ELSE /\ p.invoked # None
                   /\ Len(p.invoked[1]) = Cardinality(wanted)
                   /\ { p.invoked[1][k] : k \in 1..Len(p.invoked[1]) }
                        = { p.listed[i].bundleId : i \in wanted }

\* C7 witness: "Update All" was pressed on a list holding an ignored app with
\* an update next to an updatable one, and invoked the command.
C7_Witness ==
    /\ lastPress # None
    /\ lastPress[1].invoked # None
    /\ \E i \in 1..Len(lastPress[1].listed) :
          lastPress[1].listed[i].hasUpdate /\ lastPress[1].listed[i].isIgnored

\* C11: an update whose candidate source is adobe_cc is always shown and routed
\* as Delegated, whatever the install source, cask token or formula name of
\* the app: phase 1 decides before phase 2 is consulted.
C11_AdobeAlwaysDelegated ==
    (rShown # None /\ rApp.updateSource = "adobe_cc") => rShown[1] = TRUE

\* C11 witness: an adobe_cc candidate of an app installed with Homebrew that has
\* a cask token (phase 2 alone would select Homebrew) was shown as delegated.
C11_Witness ==
    /\ rShown = Some(TRUE)
    /\ rApp.updateSource = "adobe_cc"
    /\ rApp.installSource = "homebrew"
    /\ rApp.homebrewCaskToken # NULL

\* The integer the i-th dotted segment of an all-integer version stands for; a
\* missing trailing segment stands for zero.
AllInteger(v) == \A i \in 1..Len(split(v)) : IsDigits(split(v)[i])
SegmentValue(v, i) == IF i > Len(split(v)) THEN 0 ELSE DecVal(split(v)[i])
\* The first position (left to right) at which two versions differ, or 0.
FirstDifference(v, w) ==
    LET n == Max(Len(split(v)), Len(split(w)))
        differ == { i \in 1..n : SegmentValue(v, i) # SegmentValue(w, i) }
    IN  IF differ = {} THEN 0 ELSE CHOOSE i \in differ : \A j \in differ : i <= j

V_1_9 == <<"1", ".", "9">>
V_1_10 == <<"1", ".", "1", "0">>

\* C12: for two dotted versions whose segments all parse as integers, the
\* available version is reported newer exactly when, at the first segment
\* where the two differ, its integer value is the greater one; so "1.10" is
\* newer than "1.9".
C12_NumericAware ==
    (vNewer # None /\ AllInteger(vCurrent) /\ AllInteger(vAvailable)) =>
        LET d == FirstDifference(vCurrent, vAvailable)
        IN  vNewer[1] = (d # 0 /\ SegmentValue(vAvailable, d) > SegmentValue(vCurrent, d))

\* C12 witness: "1.9" was compared with "1.10" and "1.10" was reported newer.
C12_Witness ==
    /\ vCurrent = V_1_9
    /\ vAvailable = V_1_10
    /\ vNewer = Some(TRUE)

\* w is v with one or more ".0" segments appended.
RECURSIVE IsZeroSegments(_)
IsZeroSegments(t) ==
    \/ t = <<>>
    \/ /\ Len(t) >= 2
       /\ t[1] = "." /\ t[2] = "0"
       /\ IsZeroSegments(SubSeq(t, 3, Len(t)))

ZeroExtends(v, w) ==
    /\ Len(w) > Len(v)
    /\ SubSeq(w, 1, Len(v)) = v
    /\ IsZeroSegments(SubSeq(w, Len(v) + 1, Len(w)))

\* C13: missing trailing segments are treated as zero: a version and the same
\* version with any number of ".0" segments appended compare equal, neither is
\* reported newer than the other.
C13_TrailingZerosEqual ==
    (vNewer # None /\ (ZeroExtends(vCurrent, vAvailable) \/ ZeroExtends(vAvailable, vCurrent)))
        => vNewer[1] = FALSE

\* C13 witness: "1.9.0" was compared with "1.9" and not reported newer.
C13_Witness ==
    /\ vCurrent = V_1_9
    /\ vAvailable = V_1_9 \o <<".", "0">>
    /\ vNewer = Some(FALSE)

\* C14: a segment that does not parse as an integer is ranked by lexicographic
\* ordering: "1.0-beta" is reported newer than "1.0-alpha", and "1.0-alpha" is
\* not reported newer than "1.0-beta".
C14_LexicographicSegments ==
    vNewer # None =>
        /\ (vCurrent = V_1_0_alpha /\ vAvailable = V_1_0_beta) => vNewer[1] = TRUE
        /\ (vCurrent = V_1_0_beta /\ vAvailable = V_1_0_alpha) => vNewer[1] = FALSE

\* C15: the comparison is a consistent order: no version is newer than itself,
\* two versions are never each newer than the other, and if b is newer than a
\* and c is newer than b then c is newer than a.
C15_ConsistentOrder ==
    vOrder # None =>
        /\ ~vOrder[1].aa
        /\ ~(vOrder[1].ab /\ vOrder[1].ba)
        /\ (vOrder[1].ab /\ vOrder[1].bc) => vOrder[1].ac

\* C15 witness: three versions of different lengths, one with a segment that is
\* not a number, were found in a chain a < b < c.
C15_Witness ==
    /\ vOrder # None
    /\ vOrder[1].ab /\ vOrder[1].bc /\ vOrder[1].ac
    /\ vCurrent = <<"0", "-", "r", "c">>
    /\ vAvailable = <<"0", ".", "1", "0">>
    /\ vThird = <<"1", "0">>

\* C16: for every progress entry with a known total_bytes > 0, the percent the
\* GUI uses is downloaded_bytes / total_bytes x 100, and the percent reported
\* in the event is used only when total_bytes is unknown.
C16_PercentFromBytes ==
    pcCard # None =>
        LET e == pcProgress[ShownBundle]
        IN  /\ (e.totalBytes # None /\ e.totalBytes[1] > 0 /\ e.downloadedBytes # None) =>
                  /\ FracEq(pcCard[1], Frac(e.downloadedBytes[1] * 100, e.totalBytes[1]))
                  /\ FracEq(pcInline[1], Frac(e.downloadedBytes[1] * 100, e.totalBytes[1]))
            /\ e.totalBytes = None =>
                  /\ pcCard[1] = Frac(e.percent, 1)
                  /\ pcInline[1] = Frac(e.percent, 1)

\* C16 as amended: with downloaded_bytes > 0 and a known total_bytes > 0 the
\* percent the GUI uses is downloaded_bytes / total_bytes x 100; in every other
\* case (total_bytes unknown or zero, or no byte downloaded yet) it is the
\* percent reported in the event.
C16_PercentFromRealBytes ==
    pcCard # None =>
        LET e == pcProgress[ShownBundle]
            real == /\ e.downloadedBytes # None /\ e.downloadedBytes[1] > 0
                    /\ e.totalBytes # None /\ e.totalBytes[1] > 0
        IN  /\ real =>
                  /\ FracEq(pcCard[1], Frac(e.downloadedBytes[1] * 100, e.totalBytes[1]))
                  /\ FracEq(pcInline[1], Frac(e.downloadedBytes[1] * 100, e.totalBytes[1]))
            /\ ~real =>
                  /\ pcCard[1] = Frac(e.percent, 1)
                  /\ pcInline[1] = Frac(e.percent, 1)

\* C16 witness: an entry with 50 of 200 bytes and a reported percent of 10 was
\* rendered as 25 percent.
C16_Witness ==
    /\ pcCard # None
    /\ pcProgress[ShownBundle].percent = 10
    /\ pcProgress[ShownBundle].downloadedBytes = Some(50)
    /\ pcProgress[ShownBundle].totalBytes = Some(200)
    /\ FracEq(pcCard[1], Frac(25, 1))
    /\ FracEq(pcInline[1], Frac(25, 1))

\* The entry of bundle b in a record of the store, or None.
EntryOf(f, b) == IF b \in DOMAIN f THEN Some(f[b]) ELSE None

\* C17: execution events are applied as independent per-bundle streams:
\* handling an update-execute-progress or update-execute-complete event of a
\* bundle, or running its delayed clear, leaves the progress entry and the
\* relaunch-needed entry of every other bundle unchanged.
C17_PerBundleStreams ==
    [][\A a \in Bundles :
          (ProgressEvent(a) \/ CompleteEvent(a) \/ ClearTimerFires(a)) =>
              \A b \in Bundles \ {a} :
                  /\ EntryOf(progress', b) = EntryOf(progress, b)
                  /\ EntryOf(relaunchNeeded', b) = EntryOf(relaunchNeeded, b)]_vars

\* C17 witness: the events of com.a up to its completion were handled while
\* com.b held a progress entry and a relaunch-needed entry, and both are
\* still there.
C17_Witness ==
    /\ lastEvent["com.a"] = "complete"
    /\ "com.a" \in DOMAIN relaunchNeeded
    /\ "com.b" \in DOMAIN progress
    /\ "com.b" \in DOMAIN relaunchNeeded
    /\ lastEvent["com.b"] = "progress"


\* A self-update execution has failed and its rejection is on its way to the banner.
SelfUpdateFailurePending == suResponse # None /\ ~suResponse[1].ok

\* C18: relaunch_self is invoked only by a press of "Restart Now", the button
\* is offered only after a self-update-complete event with success = true has
\* been handled, and no event, answer or engine step invokes relaunch_self.
C18_ExplicitRelaunch ==
    [][ /\ (suRelaunch' = "sent" /\ suRelaunch # "sent")
            => (RestartNowOffered(banner) /\ suSuccessSeen)
        /\ RestartNowOffered(banner') => suSuccessSeen'
        /\ ( \/ CheckSelfUpdateResolves \/ SelfUpdateAvailableEvent
             \/ SelfUpdateEmitsProgress \/ SelfUpdateEnds
             \/ SelfUpdateEventHandled \/ ExecuteSelfUpdateSettles )
            => suRelaunch' = suRelaunch ]_vars

\* C18 witness: "Restart Now" was pressed after a successful self-update.
C18_Witness == suRelaunch = "sent" /\ suSuccessSeen /\ banner.isRelaunching

\* C19: whenever execute_self_update ends in failure, the banner eventually
\* shows the error view (with Retry and dismiss), so it leaves the updating view.
C19_FailureShown == SelfUpdateFailurePending ~> (BannerView(banner) = "error")

\* C19 witness: the banner shows the error of a failed execution while not updating.
C19_Witness ==
    /\ BannerView(banner) = "error"
    /\ suStarted > 0
    /\ ~banner.isUpdating
    /\ banner.error \in SelfUpdateErrors

\* The path lies under the directory: the directory's components start it.
LiesUnder(path, dir) ==
    /\ Len(path) > Len(dir)
    /\ \A i \in 1..Len(dir) : path[i] = dir[i]

\* The app a bundle id names.
AppOf(bundleId) == CHOOSE app \in UninstallableApps : app.bundleId = bundleId

\* C20: uninstall_app is never invoked for the bundle com.macplus.app nor for
\* an app whose path lies under /System/Applications/ or /System/Library/.
C20_ProtectedNeverUninstalled ==
    \A call \in unInvoked :
        /\ call.bundleId # "com.macplus.app"
        /\ ~LiesUnder(AppOf(call.bundleId).appPath, SystemApplicationsDir)
        /\ ~LiesUnder(AppOf(call.bundleId).appPath, SystemLibraryDir)

\* C20 witness: an app was uninstalled, and a protected app's dialog is open
\* after it.
C20_Witness ==
    /\ unInvoked # {}
    /\ uninstallTarget # None
    /\ isProtected(uninstallTarget)

\* C21: the delayed clear of an ended execution does not remove a progress
\* entry written by a later execution of the same bundle: when a clear timer
\* of a bundle fires while a later execution of it is running and has had a
\* progress event handled since the last completion, the entry stays.
C21_ClearOnlyOwnProgress ==
    [][\A b \in Bundles :
          (ClearTimerFires(b) /\ b \in exRunning /\ lastEvent[b] = "progress") =>
              EntryOf(progress', b) = EntryOf(progress, b)]_vars

\* C22: the GUI starts no second execution of a bundle that is being updated:
\* a command issued by any window includes no bundle that a command still in
\* flight includes or that has a progress entry.
C22_NoSecondExecution ==
    [][\A c \in lnCalls' \ lnCalls :
          \A b \in c.ids :
              /\ b \notin InFlightBundles(lnCalls)
              /\ b \notin lnProgress]_vars

\* C23: changing one settings field never alters another: once everything has
\* settled, no write having failed and the commands having been served in the
\* order of their issue, every field of the persisted settings holds the value
\* the user chose last for it.
C23_FieldsIndependent ==
    (SettingsSettled /\ ~seHistory.failed /\ seHistory.inOrder) =>
        \A f \in SettingsFields :
            seHistory.chosen[f] # None => persisted[f] = seHistory.chosen[f][1]

\* C24: within one execution whose reported percent and byte counts are
\* non-decreasing, the displayed percent never moves backwards and never
\* exceeds 100.
C24_DisplayNeverBackwards ==
    /\ [][cwProps # None => cwDisplay' >= cwDisplay]_vars
    /\ [](cwDisplay <= 100 * Milli)

\* Completion payloads that ask for a relaunch and are not delegated.
RelaunchPayloads ==
    [success : BOOLEAN, needsRelaunch : {TRUE},
     appPath : {"/Applications/A.app", "/Applications/B.app"},
     delegated : {None, Some(FALSE)}]

\* C25: right after update-execute-complete with needs_relaunch = true, an
\* app_path and delegated not set has been handled, the bundle has no progress
\* entry and its relaunch-needed entry holds exactly that bundle id and
\* app_path; the handler gives this for every such payload in every state.
C25_CompleteMovesToRelaunch ==
    /\ [][\A b \in Bundles :
            (CompleteEvent(b) /\ RelaunchBranch(lastComplete'[b][1])) =>
                /\ b \notin DOMAIN progress'
                /\ EntryOf(relaunchNeeded', b) =
                      Some([bundleId |-> b, appPath |-> lastComplete'[b][1].appPath])]_vars
    /\ [](\A b \in Bundles : \A payload \in RelaunchPayloads :
            LET after == handleComplete(progress, relaunchNeeded, timers, b, payload)
            IN  /\ b \notin DOMAIN after.progress
                /\ EntryOf(after.relaunchNeeded, b) =
                      Some([bundleId |-> b, appPath |-> payload.appPath]))

\* C25 witness: a completion asking for a relaunch was handled after progress
\* events, and the bundle is in relaunch-needed with no progress entry.
C25_Witness ==
    \E b \in Bundles :
        /\ lastEvent[b] = "complete"
        /\ lastComplete[b] # None
        /\ RelaunchBranch(lastComplete[b][1])
        /\ b \notin DOMAIN progress
        /\ EntryOf(relaunchNeeded, b) =
              Some([bundleId |-> b, appPath |-> "/Applications/A.app"])
        /\ timers[b] = 0

\* C26: handling update-execute-complete with delegated = true never creates a
\* relaunch-needed entry for the bundle (the bundle's entry is left as it
\* was), even when the event carries needs_relaunch = true and an app_path.
C26_DelegatedNeedsNoRelaunch ==
    [][\A b \in Bundles :
          (CompleteEvent(b) /\ lastComplete'[b][1].delegated) =>
              EntryOf(relaunchNeeded', b) = EntryOf(relaunchNeeded, b)]_vars

\* C26 witness: a delegated completion that also carried needs_relaunch and an
\* app_path was handled, and the bundle has no relaunch-needed entry.
C26_Witness ==
    \E b \in Bundles :
        /\ lastEvent[b] = "complete"
        /\ lastComplete[b] # None
        /\ lastComplete[b][1].delegated
        /\ lastComplete[b][1].relaunch
        /\ b \notin DOMAIN relaunchNeeded

\* How often a command occurs among the commands startup has invoked.
TimesInvoked(cmd) == Cardinality({ i \in 1..Len(stInvoked) : stInvoked[i] = cmd })

\* C27: the startup scan/check runs at most once per launch: once the startup
\* decision has been taken, no refetch of the apps and no change of the
\* settings makes the startup effect invoke anything (the only command that
\* follows is the check chained to the startup scan), and trigger_full_scan
\* and check_all_updates are each invoked at most once.
C27_StartupRunsOnce ==
    /\ [][hasRunStartup =>
            \/ stInvoked' = stInvoked
            \/ (FullScanSettles /\ stInvoked' = Append(stInvoked, "check_all_updates"))]_vars
    /\ [](TimesInvoked("trigger_full_scan") <= 1 /\ TimesInvoked("check_all_updates") <= 1)

\* C27 witness: the startup scan and its check have run, the apps were
\* refetched with a larger catalog and the setting was changed afterwards.
C27_Witness ==
    /\ hasRunStartup
    /\ stInvoked = <<"trigger_full_scan", "check_all_updates">>
    /\ stToggles = 1
    /\ stApps # None /\ stApps[1] # stLaunch.catalog
    /\ stAppsFetch = "idle" /\ fullScan = "idle" /\ checkUpdates = "idle"

\* C28: when update_settings fails, the settings cached by the GUI are put
\* back to what they were immediately before that update was applied
\* optimistically, and a refetch of the persisted settings is started.
C28_FailedUpdateRolledBack ==
    [][\A m \in 1..MaxUpdates :
          (UpdateSettingsSettles(m) /\ seMutations[m].phase = "failed") =>
              /\ seMutations[m].previous # None
              /\ seCache' = seMutations[m].previous
              /\ seFetch' = SentFetch]_vars

\* C28 witness: the only update made has failed and settled, the cache holds
\* the row again rather than the value the user chose, and the refetch is under way.
C28_Witness ==
    /\ seIssued = 1
    /\ seHistory.failed
    /\ seMutations[1].phase = "none"
    /\ seFetch.phase = "sent"
    /\ seCache = Some(persisted)
    /\ \E f \in SettingsFields :
          /\ seHistory.chosen[f] # None
          /\ seHistory.chosen[f][1] # seCache[1][f]

\* An app is selected: selectedAppId is a non-empty bundle id.
AppSelected == Truthy(selectedAppId)

\* C29 as stated: in every reachable state of the UI store the detail sheet
\* is open exactly when an app is selected, after any sequence of selectApp
\* and setDetailOpen calls.
C29_OpenIffSelected == detailOpen <=> AppSelected

\* C29 amended: a selected app always has its sheet open, and every selectApp
\* call and every setDetailOpen(false) call leaves the sheet open exactly when
\* an app is selected; only setDetailOpen(true) opens the sheet with no
\* selection.
C29_OpenIffSelectedUnlessForced ==
    /\ [](AppSelected => detailOpen)
    /\ [][(SelectApp \/ SetDetailOpen(FALSE)) => (detailOpen' <=> Truthy(selectedAppId'))]_vars

\* C29 witness: setDetailOpen(true) opened the sheet with no selection, an app
\* was then selected, and setDetailOpen(false) has closed the sheet and
\* cleared the selection.
C29_Witness ==
    /\ Len(uiCalls) = 3
    /\ uiCalls[1] = <<"setDetailOpen", "true">>
    /\ uiCalls[2] = <<"selectApp", "com.a">>
    /\ uiCalls[3] = <<"setDetailOpen", "false">>
    /\ ~detailOpen
    /\ selectedAppId = NULL

\* C30: once a relaunch_app of a bundle has settled the bundle has no
\* relaunch-needed entry, and while a relaunch_app of a bundle has not
\* settled the bundle's entry is not removed.
C30_RelaunchConsumesEntry ==
    /\ [][\A c \in rlCalls \ rlCalls' : c.bundleId \notin DOMAIN rlNeeded']_vars
    /\ [][\A c \in rlCalls \cap rlCalls' :
            c.bundleId \in DOMAIN rlNeeded => c.bundleId \in DOMAIN rlNeeded']_vars
====
